---------------------------- MODULE Spec2Model ----------------------------
(***************************************************************************)
(* A model of mksqlite.cpp, the MATLAB interface to SQLite.                *)
(*                                                                         *)
(* The module holds seven state machines over one set of variables:        *)
(*   SpecCodec  the charset codec (utf2latin, latin2utf) and its callers   *)
(*   SpecSize   the size computation of the typed BLOB encoder             *)
(*   SpecBlob   the typed BLOB codec (encode on bind, decode on read)      *)
(*   Spec       mexFunction executing a query or a flag command: prepare,  *)
(*              bind, step, transcribe, finalize, with the objects the     *)
(*              call allocates with new                                    *)
(*   SpecNames  the result path of one query, from the column names on,    *)
(*              over many vectors of column names                          *)
(*   SpecRaw    a value of several elements bound with typed BLOBs off and *)
(*              read back                                                  *)
(*   SpecDbs    the table of database handles under open, close, status,   *)
(*              setbusytimeout and queries                                 *)
(* Bytes are the integers 0..255, strings are sequences of bytes, and a    *)
(* C string in memory is its bytes followed by the terminator 0.           *)
(***************************************************************************)
EXTENDS Integers, Sequences, FiniteSets, TLC

VARIABLES
    \* ---- charset codec
    convertUTF8,   \* static bool convertUTF8
    cx,            \* the string handed to the codec (bytes, no terminator)
    conv,          \* what the last codec call did
    \* ---- size of a typed BLOB
    build,         \* the data model the file is compiled for
    arr,           \* the array being bound: nDims, cntElements, szElement
    sized,         \* the outcome of the size computation and allocation
    \* ---- typed BLOB codec
    g_platform,    \* static char g_platform[11], as the bytes before its terminator
    g_endian,      \* g_endian[0]
    item,          \* the array bound as a parameter: clsid, dims, data
    blob,          \* the bytes of the BLOB column
    tamper,        \* what happened to the stored bytes outside this process
    dec,           \* what reading the column as a typed BLOB gave
    bpc,           \* "item", "stored", "failed", "decoded"
    \* ---- mexFunction
    g_dbs,         \* static sqlite3* g_dbs[MaxNumOfDbs]: 0, or the connection in the slot
    connections,   \* the connections sqlite3_open has given and sqlite3_close
                   \* has not closed
    NULLasNaN,     \* static bool NULLasNaN
    check4uniquefields,  \* static bool check4uniquefields
    use_typed_blobs,     \* static bool use_typed_blobs
    pc,            \* where the call stands; "returned" between calls
    call,          \* the command, db_id, NumArgs, whether the first argument behind
                   \* the query is a cell, what prepare makes of the query, and
                   \* the indices the call has used on g_dbs
    g_finalize_msg,  \* the error message the call ends with, "NULL" for none
    command,       \* the command string is allocated
    pArgs,         \* the parameter collection: allocated, and its elements
    st,            \* the statement: prepared, its bound slots, its finalize count
    fieldnames,    \* char **fieldnames: the column names
    allrows,       \* the list of rows from allrows (or lastrow, when transcribing) on
    rowcount,      \* int rowcount
    step_res,      \* what the last sqlite3_step returned in this call
    heap,          \* the objects allocated with new and not deleted
    plhs,          \* plhs[0]: created, and the records filled in
    warnings,      \* the warnings raised during the call
    ret            \* how the last call returned

codecVars == <<convertUTF8, cx, conv>>
sizeVars == <<build, arr, sized>>
machineVars == <<g_platform, g_endian>>
blobVars == <<item, blob, tamper, dec, bpc>>
flagVars == <<NULLasNaN, check4uniquefields, use_typed_blobs>>
mexVars == <<g_dbs, connections, pc, call, g_finalize_msg, command, pArgs, st, fieldnames, allrows,
             rowcount, step_res, heap, plhs, warnings, ret>>
vars == <<convertUTF8, cx, conv, build, arr, sized, g_platform, g_endian,
          item, blob, tamper, dec, bpc, NULLasNaN, check4uniquefields,
          use_typed_blobs, g_dbs, connections, pc, call, g_finalize_msg, command, pArgs, st,
          fieldnames, allrows, rowcount, step_res, heap, plhs, warnings, ret>>

Max(a, b) == IF a > b THEN a ELSE b

(***************************************************************************)
(* Bounds of the model.                                                    *)
(***************************************************************************)
MaxStrLen == 3     \* longest sampled string handed to the codec

RECURSIVE SeqsUpTo(_, _)
SeqsUpTo(S, n) ==
    IF n = 0 THEN {<<>>}
    ELSE LET shorter == SeqsUpTo(S, n - 1)
         IN  shorter \cup {Append(s, b) : s \in shorter, b \in S}

Bytes == 0..255
\* Bytes around every branch of the two converters: ASCII, the 2-byte lead
\* bytes the encoder produces (194, 195), continuation bytes, other high bytes.
ByteSample == {1, 65, 127, 128, 191, 194, 195, 255}
TestStrings == SeqsUpTo(ByteSample, MaxStrLen) \cup {<<b>> : b \in 1..255}
\* What may lie behind a string's terminator: memory the string does not own.
\* Nothing mapped, a zero byte, or some bytes and then a zero byte.
Tails == {<<>>, <<0>>, <<65, 0>>, <<200, 0>>, <<200, 65, 0>>}

(***************************************************************************)
(* utf2latin (UTF-8 to single byte).  mem is the memory at s, i the        *)
(* offset of s in it (from 1), out the bytes stored through p, cnt the     *)
(* counter, rd the highest offset read.  Reading past the modelled memory  *)
(* is an access violation (fault).                                         *)
(***************************************************************************)
\* A mask of 31 where the code has 63.
Latin1OfNarrowMask(s0, s1) == ((s0 * 64) % 256) + (s1 % 32)

\* *p = ( s[0] << 6 ) | ( s[1] & 63 ), stored in an unsigned char: the two
\* operands share no bit, so the or is their sum.
Latin1Of(s0, s1) == ((s0 * 64) % 256) + (s1 % 64)

RECURSIVE utf2latin_loop(_, _, _, _, _)
utf2latin_loop(mem, i, out, cnt, rd) ==
    IF i > Len(mem)
    THEN [cnt |-> cnt, out |-> out, rd |-> i, fault |-> TRUE]
    ELSE IF mem[i] = 0
    THEN [cnt |-> cnt + 1, out |-> Append(out, 0), rd |-> Max(rd, i), fault |-> FALSE]
    ELSE IF mem[i] < 128
    THEN utf2latin_loop(mem, i + 1, Append(out, mem[i]), cnt + 1, Max(rd, i))
    ELSE IF i + 1 > Len(mem)
    THEN [cnt |-> cnt, out |-> out, rd |-> i + 1, fault |-> TRUE]
    ELSE utf2latin_loop(mem, i + 2, Append(out, Latin1Of(mem[i], mem[i + 1])),
                        cnt + 1, Max(rd, i + 1))

\* buffer: TRUE when a destination is given, FALSE for the sizing call (p = &ch).
\* extent is the number of bytes of the destination the call stored into.
utf2latin(mem, buffer) ==
    LET r == utf2latin_loop(mem, 1, <<>>, 0, 0)
    IN  [cnt |-> r.cnt, out |-> r.out, rd |-> r.rd, fault |-> r.fault,
         extent |-> IF buffer THEN Len(r.out) ELSE 1]

(***************************************************************************)
(* latin2utf (single byte to UTF-8).  pmax is the furthest offset of p in  *)
(* the two-byte scratch ch when no destination is given.                   *)
(***************************************************************************)
Utf8Lead(b) == 128 + 64 + (b \div 64)   \* 128 + 64 + ( *s >> 6 )
Utf8Cont(b) == 128 + (b % 64)           \* 128 + ( *s++ & 63 )

RECURSIVE latin2utf_loop(_, _, _, _, _)
latin2utf_loop(mem, i, out, cnt, rd) ==
    IF i > Len(mem)
    THEN [cnt |-> cnt, out |-> out, rd |-> i, fault |-> TRUE, pmax |-> 0]
    ELSE IF mem[i] = 0
    THEN [cnt |-> cnt + 1, out |-> Append(out, 0), rd |-> Max(rd, i),
          fault |-> FALSE, pmax |-> 1]
    ELSE IF mem[i] < 128
    THEN LET r == latin2utf_loop(mem, i + 1, Append(out, mem[i]), cnt + 1, Max(rd, i))
         IN  [r EXCEPT !.pmax = Max(@, 1)]
    ELSE LET r == latin2utf_loop(mem, i + 1,
                      out \o <<Utf8Lead(mem[i]), Utf8Cont(mem[i])>>,
                      cnt + 2, Max(rd, i))
         IN  [r EXCEPT !.pmax = Max(@, 2)]

latin2utf(mem, buffer) ==
    LET r == latin2utf_loop(mem, 1, <<>>, 0, 0)
    IN  [cnt |-> r.cnt, out |-> r.out, rd |-> r.rd, fault |-> r.fault,
         extent |-> IF buffer THEN Len(r.out) ELSE r.pmax]

NoConv == [op |-> "none", term |-> 0, n1 |-> 0, n2 |-> 0, cap |-> 0, extent |-> 0,
           out |-> <<>>, rd |-> 0, fault |-> FALSE, scratch |-> 0]

CodecIdle == cx = <<>> /\ conv = NoConv

(***************************************************************************)
(* The callers' two passes: size with no destination, allocate, fill.      *)
(* p1 is the sizing call, p2 the filling call; the destination has         *)
(* p1.cnt bytes.  A sizing call that faults ends the process.              *)
(***************************************************************************)
TwoPass(op, term, p1, p2) ==
    IF p1.fault
    THEN [op |-> op, term |-> term, n1 |-> p1.cnt, n2 |-> 0, cap |-> 0, extent |-> 0,
          out |-> <<>>, rd |-> p1.rd, fault |-> TRUE, scratch |-> p1.extent]
    ELSE [op |-> op, term |-> term, n1 |-> p1.cnt, n2 |-> p2.cnt, cap |-> p1.cnt,
          extent |-> p2.extent, out |-> p2.out, rd |-> Max(p1.rd, p2.rd),
          fault |-> p2.fault, scratch |-> p1.extent]

\* strcpy() into a buffer of strlen() + 1 bytes.
PlainCopy(op, s) ==
    [op |-> op, term |-> Len(s) + 1, n1 |-> Len(s) + 1, n2 |-> Len(s) + 1,
     cap |-> Len(s) + 1, extent |-> Len(s) + 1, out |-> Append(s, 0),
     rd |-> Len(s) + 1, fault |-> FALSE, scratch |-> 0]

\* strnewdup(s), s not NULL: t1 and t2 are the memory behind s's terminator
\* as the first and the second call find it (new char[buflen] lies between).
strnewdup(s, t1, t2) ==
    IF convertUTF8
    THEN TwoPass("strnewdup", Len(s) + 1,
                 utf2latin(Append(s, 0) \o t1, FALSE),
                 utf2latin(Append(s, 0) \o t2, TRUE))
    ELSE PlainCopy("strnewdup", s)

\* getstring(a): c holds the characters of a and a terminator, and nothing
\* behind the terminator is modelled: a read there is a fault.
getstring(a) ==
    IF convertUTF8
    THEN TwoPass("getstring", Len(a) + 1,
                 latin2utf(Append(a, 0), FALSE),
                 latin2utf(Append(a, 0), TRUE))
    ELSE PlainCopy("getstring", a)

\* The text branch of the parameter binder: mxArrayToString, then latin2utf
\* twice when convertUTF8; the bound text is the result.
bind_text(a) ==
    IF convertUTF8
    THEN TwoPass("bind_text", Len(a) + 1,
                 latin2utf(Append(a, 0), FALSE),
                 latin2utf(Append(a, 0), TRUE))
    ELSE PlainCopy("bind_text", a)

(***************************************************************************)
(* Sizes.  A size is a number of up to 64 bits, held as four limbs of 16   *)
(* bits, lowest first, so that the 32-bit and 64-bit arithmetic of the     *)
(* code is computed exactly.                                               *)
(***************************************************************************)
Limb == 2 ^ 16

\* n, a natural below 2^31, as a size.
L64(n) == <<n % Limb, (n \div Limb) % Limb, 0, 0>>

\* hi * 2^16 + lo as a size.
LPair(hi, lo) == <<lo, hi, 0, 0>>

\* a + b modulo 2^64.
LAdd(a, b) ==
    LET s1 == a[1] + b[1]
        s2 == a[2] + b[2] + (s1 \div Limb)
        s3 == a[3] + b[3] + (s2 \div Limb)
        s4 == a[4] + b[4] + (s3 \div Limb)
    IN  <<s1 % Limb, s2 % Limb, s3 % Limb, s4 % Limb>>

\* a * k modulo 2^64, k a small natural.
LMul(a, k) ==
    LET p1 == a[1] * k
        p2 == a[2] * k + (p1 \div Limb)
        p3 == a[3] * k + (p2 \div Limb)
        p4 == a[4] * k + (p3 \div Limb)
    IN  <<p1 % Limb, p2 % Limb, p3 % Limb, p4 % Limb>>

\* a converted to an unsigned type of the given width.
LTrunc(a, bits) == IF bits = 32 THEN <<a[1], a[2], 0, 0>> ELSE a

\* a < b, both unsigned.
LLess(a, b) ==
    \/ a[4] < b[4]
    \/ a[4] = b[4] /\ a[3] < b[3]
    \/ a[4] = b[4] /\ a[3] = b[3] /\ a[2] < b[2]
    \/ a[4] = b[4] /\ a[3] = b[3] /\ a[2] = b[2] /\ a[1] < b[1]

\* A 32-bit pattern read as a signed int is negative.
LNeg32(a) == a[2] >= Limb \div 2

\* a < b for two 32-bit patterns read as signed ints.
LLessSigned32(a, b) ==
    IF LNeg32(a) # LNeg32(b) THEN LNeg32(a) ELSE LLess(a, b)

LZero == <<0, 0, 0, 0>>

(***************************************************************************)
(* The typed BLOB header and the size of a typed BLOB.                     *)
(***************************************************************************)
\* #define INT32_MAX (0x3FFFFFFF)
INT32_MAX == LPair(16383, 65535)
MQSQLITE_MAX_BLOB_SIZE == INT32_MAX

\* Offsets of the fields of typed_BLOB_header (x86 and x64 layout).
TBH_OFF_MAGIC == 0
TBH_OFF_VER == 14
TBH_OFF_CLSID == 16
TBH_OFF_PLATFORM == 20
TBH_OFF_ENDIAN == 31
TBH_OFF_SIZEDIMS == 32
TBH_SIZEOF == 36

\* (ptrdiff_t)&((typed_BLOB_header*) 0)->sizeDims[nDims+1]
TBH_DATA_OFFSET(nDims) == TBH_OFF_SIZEDIMS + 4 * (nDims + 1)

\* The data models the static assertion SA_UIN32 admits (mwSize of 4 bytes):
\* a 32-bit process with mwSize = size_t, and mwSize = int with a 32-bit or
\* a 64-bit size_t.
Builds ==
    { [sizeT |-> 32, mwSigned |-> FALSE],
      [sizeT |-> 32, mwSigned |-> TRUE],
      [sizeT |-> 64, mwSigned |-> TRUE] }

\* cntElements * szElement, computed in size_t.
PayloadSizeT(b, a) == LTrunc(LMul(a.cntElements, a.szElement), b.sizeT)

\* mwSize sizeBlob = (mwSize) TBH_DATA_OFFSET( item_nDims ) +
\*                   (mwSize) (cntElements * szElement);
SizeBlobOf(b, a) ==
    LTrunc(LAdd(L64(TBH_DATA_OFFSET(a.nDims)), LTrunc(PayloadSizeT(b, a), 32)), 32)

\* sizeBlob > MQSQLITE_MAX_BLOB_SIZE, compared in mwSize.
ExceedsMax(b, sizeBlob) ==
    IF b.mwSigned
    THEN LLessSigned32(MQSQLITE_MAX_BLOB_SIZE, sizeBlob)
    ELSE LLess(MQSQLITE_MAX_BLOB_SIZE, sizeBlob)

\* The size computation, the check and the allocation of the encoder.
\* mallocOk: whether the engine's allocator has the memory.  sqlite3_malloc
\* takes an int and returns NULL for a size that is not positive.  overrun:
\* the header and the payload copied by memcpy do not fit the allocation.
BlobAlloc(b, a, mallocOk) ==
    LET sizeBlob == SizeBlobOf(b, a)
        need == LAdd(L64(TBH_DATA_OFFSET(a.nDims)), PayloadSizeT(b, a))
    IN  IF ExceedsMax(b, sizeBlob)
        THEN [err |-> "MSG_BLOBTOOBIG", sizeBlob |-> sizeBlob, overrun |-> FALSE]
        ELSE IF LNeg32(sizeBlob) \/ sizeBlob = LZero \/ ~mallocOk
        THEN [err |-> "MSG_MEMERROR", sizeBlob |-> sizeBlob, overrun |-> FALSE]
        ELSE [err |-> "none", sizeBlob |-> sizeBlob, overrun |-> LLess(sizeBlob, need)]

\* The true size of the BLOB: header offset plus element count times element
\* size (below 2^36, so exact in 64 bits).
TrueSize(a) == LAdd(L64(TBH_DATA_OFFSET(a.nDims)), LMul(a.cntElements, a.szElement))

(***************************************************************************)
(* MATLAB arrays.  mxClassID as matrix.h numbers the classes; the element  *)
(* size is what mxGetElementSize returns.                                  *)
(***************************************************************************)
mxClassID ==
    [mxUNKNOWN_CLASS |-> 0, mxCELL_CLASS |-> 1, mxSTRUCT_CLASS |-> 2,
     mxLOGICAL_CLASS |-> 3, mxCHAR_CLASS |-> 4, mxVOID_CLASS |-> 5,
     mxDOUBLE_CLASS |-> 6, mxSINGLE_CLASS |-> 7, mxINT8_CLASS |-> 8,
     mxUINT8_CLASS |-> 9, mxINT16_CLASS |-> 10, mxUINT16_CLASS |-> 11,
     mxINT32_CLASS |-> 12, mxUINT32_CLASS |-> 13, mxINT64_CLASS |-> 14,
     mxUINT64_CLASS |-> 15, mxFUNCTION_CLASS |-> 16]

\* The classes the switch of the encoder, and of the decoder, lets through.
TypedBlobClasses ==
    { mxClassID.mxLOGICAL_CLASS, mxClassID.mxCHAR_CLASS, mxClassID.mxDOUBLE_CLASS,
      mxClassID.mxSINGLE_CLASS, mxClassID.mxINT8_CLASS, mxClassID.mxUINT8_CLASS,
      mxClassID.mxINT16_CLASS, mxClassID.mxUINT16_CLASS, mxClassID.mxINT32_CLASS,
      mxClassID.mxUINT32_CLASS, mxClassID.mxINT64_CLASS, mxClassID.mxUINT64_CLASS }

mxGetElementSize(clsid) ==
    CASE clsid \in {mxClassID.mxLOGICAL_CLASS, mxClassID.mxINT8_CLASS,
                    mxClassID.mxUINT8_CLASS} -> 1
      [] clsid \in {mxClassID.mxCHAR_CLASS, mxClassID.mxINT16_CLASS,
                    mxClassID.mxUINT16_CLASS} -> 2
      [] clsid \in {mxClassID.mxSINGLE_CLASS, mxClassID.mxINT32_CLASS,
                    mxClassID.mxUINT32_CLASS} -> 4
      [] clsid \in {mxClassID.mxDOUBLE_CLASS, mxClassID.mxINT64_CLASS,
                    mxClassID.mxUINT64_CLASS} -> 8
      [] OTHER -> 0

RECURSIVE Product(_)
Product(ds) == IF ds = <<>> THEN 1 ELSE Head(ds) * Product(Tail(ds))

mxGetNumberOfElements(it) == Product(it.dims)

(***************************************************************************)
(* Memory.  A buffer is a sequence of bytes; the byte at offset o is       *)
(* element o + 1.  Integers lie in memory in the byte order of the         *)
(* machine: "L" (76) or "B" (66).                                          *)
(***************************************************************************)
LittleEndian == 76
BigEndian == 66

Store16(v, e) ==
    LET u == v % 65536
    IN  IF e = LittleEndian THEN <<u % 256, u \div 256>> ELSE <<u \div 256, u % 256>>

\* v in -2^31 .. 2^31 - 1, as its four bytes in two's complement.
Store32(v, e) ==
    LET b0 == v % 256
        b1 == (v \div 256) % 256
        b2 == (v \div 65536) % 256
        b3 == (v \div 16777216) % 256
    IN  IF e = LittleEndian THEN <<b0, b1, b2, b3>> ELSE <<b3, b2, b1, b0>>

Load16(bs, e) ==
    LET u == IF e = LittleEndian THEN bs[1] + 256 * bs[2] ELSE bs[2] + 256 * bs[1]
    IN  IF u >= 32768 THEN u - 65536 ELSE u

Load32(bs, e) ==
    LET l == IF e = LittleEndian THEN bs ELSE <<bs[4], bs[3], bs[2], bs[1]>>
        top == IF l[4] >= 128 THEN l[4] - 256 ELSE l[4]
    IN  top * 16777216 + l[3] * 65536 + l[2] * 256 + l[1]

\* The bytes bs stored at offset off of mem; what falls behind mem is lost.
Poke(mem, off, bs) ==
    [k \in 1..Len(mem) |->
        IF k - 1 >= off /\ k - 1 < off + Len(bs) THEN bs[k - off] ELSE mem[k]]

\* n bytes read at offset off of mem; junk is what a read behind mem finds.
Peek(mem, off, n, junk) ==
    [k \in 1..n |-> IF off + k <= Len(mem) /\ off + k >= 1 THEN mem[off + k] ELSE junk]

\* s followed by zero bytes, n bytes in all (strncpy).
ZeroPadded(s, n) == [k \in 1..n |-> IF k <= Len(s) THEN s[k] ELSE 0]

\* static const char TBH_MAGIC[] = "mkSQLite.tbh", with its terminator.
TBH_MAGIC == <<109, 107, 83, 81, 76, 105, 116, 101, 46, 116, 98, 104, 0>>

\* strlen( TBH_MAGIC )
TBH_MAGIC_STRLEN == Len(TBH_MAGIC) - 1

\* sizeof( g_platform ) - 1
PLATFORM_CMPLEN == 10

\* strncmp( a, b, n ) = 0 for two buffers of at least n bytes: equal up to
\* the first terminator or up to n bytes.
RECURSIVE StrncmpEqual(_, _, _)
StrncmpEqual(a, b, n) ==
    IF n = 0 THEN TRUE
    ELSE IF Head(a) # Head(b) THEN FALSE
    ELSE IF Head(a) = 0 THEN TRUE
    ELSE StrncmpEqual(Tail(a), Tail(b), n - 1)

(***************************************************************************)
(* The typed BLOB encoder of the parameter binder.  junk is the content    *)
(* of the bytes sqlite3_malloc returns and the encoder never stores.       *)
(***************************************************************************)
\* The sizes stored with their index one too low: sizeDims[j], not [j+1].
EncodeDimsShifted(mem, dims, e) ==
    LET RECURSIVE put(_, _)
        put(m, j) == IF j > Len(dims) THEN m
                     ELSE put(Poke(m, TBH_OFF_SIZEDIMS + 4 * (j - 1), Store32(dims[j], e)), j + 1)
    IN  put(mem, 1)

\* for( j = 0; j < item_nDims; j++ ) tbh->sizeDims[j+1] = (int32_t)pitem_dims[j];
EncodeDims(mem, dims, e) ==
    LET RECURSIVE put(_, _)
        put(m, j) == IF j > Len(dims) THEN m
                     ELSE put(Poke(m, TBH_OFF_SIZEDIMS + 4 * j, Store32(dims[j], e)), j + 1)
    IN  put(mem, 1)

\* The header and the payload as platform pf of byte order e stores them in
\* a buffer of size bytes.
TypedBlobBytes(it, size, pf, e, junk) ==
    LET nDims == Len(it.dims)
        m0 == [k \in 1..size |-> junk]
        m1 == Poke(m0, TBH_OFF_VER, Store16(TBH_SIZEOF, e))
        m2 == Poke(m1, TBH_OFF_CLSID, Store32(it.clsid, e))
        m3 == Poke(m2, TBH_OFF_ENDIAN, <<e>>)
        m4 == Poke(m3, TBH_OFF_SIZEDIMS, Store32(nDims, e))
        m5 == Poke(m4, TBH_OFF_MAGIC, TBH_MAGIC)
        m6 == Poke(m5, TBH_OFF_PLATFORM, ZeroPadded(pf, PLATFORM_CMPLEN))
        m7 == EncodeDims(m6, it.dims, e)
    IN  Poke(m7, TBH_DATA_OFFSET(nDims), it.data)

\* The branch of the binder for a value of several elements that is not
\* text, in typed BLOB mode: the BLOB bound, or the error of the call.
EncodeTypedBlob(b, it, pf, e, mallocOk, junk) ==
    LET a == [nDims |-> Len(it.dims), cntElements |-> L64(mxGetNumberOfElements(it)),
              szElement |-> mxGetElementSize(it.clsid)]
        al == BlobAlloc(b, a, TRUE)
    IN  IF al.err = "MSG_BLOBTOOBIG" THEN [err |-> al.err, bytes |-> <<>>]
        ELSE IF it.clsid \notin TypedBlobClasses
        THEN [err |-> "MSG_UNSUPPVARTYPE", bytes |-> <<>>]
        ELSE IF al.err # "none" \/ ~mallocOk THEN [err |-> "MSG_MEMERROR", bytes |-> <<>>]
        ELSE [err |-> "none",
              bytes |-> TypedBlobBytes(it, al.sizeBlob[1] + Limb * al.sizeBlob[2], pf, e, junk)]

(***************************************************************************)
(* The typed BLOB decoder of the result materializer, for a BLOB cell of   *)
(* m_Size > 0 bytes in typed BLOB mode.  junk is what a read behind the    *)
(* cell's buffer finds.                                                    *)
(***************************************************************************)
\* Only the first four characters of the magic string compared.
MagicMatchesPrefix(mem, junk) ==
    StrncmpEqual(Peek(mem, TBH_OFF_MAGIC, 4, junk), TBH_MAGIC, 4)

\* 0 == strncmp( tbh->magic, TBH_MAGIC, strlen( TBH_MAGIC ) )
MagicMatches(mem, junk) ==
    StrncmpEqual(Peek(mem, TBH_OFF_MAGIC, TBH_MAGIC_STRLEN, junk), TBH_MAGIC,
                 TBH_MAGIC_STRLEN)

\* The two conditions joined by "and" where the code has "or".
OriginDiffersBoth(mem, pf, e, junk) ==
    /\ e # Peek(mem, TBH_OFF_ENDIAN, 1, junk)[1]
    /\ ~StrncmpEqual(ZeroPadded(pf, PLATFORM_CMPLEN + 1),
                     Peek(mem, TBH_OFF_PLATFORM, PLATFORM_CMPLEN, junk), PLATFORM_CMPLEN)

\* g_endian[0] != endian || 0 != strncmp( g_platform, platform, sizeof( g_platform ) - 1 )
OriginDiffers(mem, pf, e, junk) ==
    \/ e # Peek(mem, TBH_OFF_ENDIAN, 1, junk)[1]
    \/ ~StrncmpEqual(ZeroPadded(pf, PLATFORM_CMPLEN + 1),
                     Peek(mem, TBH_OFF_PLATFORM, PLATFORM_CMPLEN, junk), PLATFORM_CMPLEN)

\* A size check that lets a payload longer than declared through.
SizeMismatchShortOnly(sizeBlob, declared) == sizeBlob < declared

\* sizeBlob != mxGetNumberOfElements( array ) * mxGetElementSize( array ),
\* sizeBlob an int32_t converted to size_t: a negative one equals no size.
SizeMismatch(sizeBlob, declared) == sizeBlob # declared

\* The most elements mxCreateNumericArray finds memory for.
MaxAllocElements == 2 ^ 20

\* Element count of the array mxCreateNumericArray creates, -1 when it
\* creates none (a negative size, or no memory for the elements).
RECURSIVE CreatedElements(_, _)
CreatedElements(ds, acc) ==
    IF ds = <<>> THEN acc
    ELSE IF Head(ds) < 0 \/ Head(ds) > MaxAllocElements THEN -1
    ELSE IF acc * Head(ds) > MaxAllocElements THEN -1
    ELSE CreatedElements(Tail(ds), acc * Head(ds))

NoDec == [err |-> "idle", warn |-> FALSE, clsid |-> 0, dims |-> <<>>, data |-> <<>>,
          copied |-> 0, attached |-> FALSE, rdmax |-> 0]

DecodeTypedBlob(mem, pf, e, junk) ==
    LET m_Size == Len(mem)
        ver == Load16(Peek(mem, TBH_OFF_VER, 2, junk), e)
        clsid == Load32(Peek(mem, TBH_OFF_CLSID, 4, junk), e)
        item_nDims == Load32(Peek(mem, TBH_OFF_SIZEDIMS, 4, junk), e)
        sizeBlob == m_Size - TBH_DATA_OFFSET(item_nDims)
        warn == OriginDiffers(mem, pf, e, junk)
        pSize == [j \in 1..item_nDims |->
                     Load32(Peek(mem, TBH_OFF_SIZEDIMS + 4 * j, 4, junk), e)]
        cnt == IF item_nDims < 1 THEN -1 ELSE CreatedElements(pSize, 1)
        fail(msg, w, rd) == [NoDec EXCEPT !.err = msg, !.warn = w, !.rdmax = rd]
    IN  IF ver # TBH_SIZEOF
        THEN fail("MSG_UNSUPPTBH", FALSE, TBH_OFF_VER + 2)
        ELSE IF ~MagicMatches(mem, junk)
        THEN fail("MSG_UNSUPPTBH", warn, TBH_SIZEOF)
        ELSE IF clsid \notin TypedBlobClasses
        THEN fail("MSG_UNSUPPVARTYPE", warn, TBH_SIZEOF)
        ELSE IF cnt < 0
        THEN fail("MSG_MEMERROR", warn, Max(TBH_SIZEOF, TBH_DATA_OFFSET(item_nDims)))
        ELSE IF SizeMismatch(sizeBlob, cnt * mxGetElementSize(clsid))
        THEN fail("MSG_INVALIDARG", warn, TBH_DATA_OFFSET(item_nDims))
        ELSE [err |-> "none", warn |-> warn, clsid |-> clsid, dims |-> pSize,
              data |-> Peek(mem, TBH_DATA_OFFSET(item_nDims), sizeBlob, junk),
              copied |-> sizeBlob, attached |-> TRUE,
              rdmax |-> TBH_DATA_OFFSET(item_nDims) + sizeBlob]

NoItem == [clsid |-> 0, dims |-> <<>>, data |-> <<>>]
NoTamper == [kind |-> "none", pos |-> 0]

BlobIdle ==
    /\ g_platform = <<>> /\ g_endian = LittleEndian
    /\ item = NoItem /\ blob = <<>> /\ tamper = NoTamper /\ dec = NoDec /\ bpc = "idle"

(***************************************************************************)
(* mexFunction between calls, before the first call.  The flags have the   *)
(* values of their declarations.                                           *)
(***************************************************************************)
MaxNumOfDbs == 5

NoQuery == [complete |-> FALSE, prepares |-> FALSE, nparams |-> 0, names |-> <<>>]
NoCall == [command |-> "", db_id |-> 0, NumArgs |-> 0, FirstIsCell |-> FALSE,
           query |-> NoQuery, indexed |-> {}]
NoArgs == [alloc |-> FALSE, cells |-> <<>>]
NoStmt == [prepared |-> FALSE, bound |-> <<>>, cleared |-> 0, finalized |-> 0]
NoPlhs == [kind |-> "none", names |-> <<>>, records |-> <<>>, scalar |-> FALSE]
NoRet == [status |-> "none", msg |-> "NULL", plhs |-> NoPlhs, warnings |-> {}]

FlagDefaults ==
    /\ NULLasNaN = FALSE
    /\ check4uniquefields = TRUE
    /\ use_typed_blobs = FALSE

BetweenCalls ==
    /\ pc = "returned" /\ call = NoCall /\ g_finalize_msg = "NULL"
    /\ command = FALSE /\ pArgs = NoArgs /\ st = NoStmt
    /\ fieldnames = <<>> /\ allrows = <<>> /\ rowcount = 0 /\ step_res = "none"
    /\ plhs = NoPlhs /\ warnings = {}

MexIdle ==
    /\ FlagDefaults
    /\ g_dbs = [i \in 0..(MaxNumOfDbs - 1) |-> 0] /\ connections = {}
    /\ BetweenCalls
    /\ heap = {} /\ ret = NoRet

MaxNDims == 3      \* most dimensions of a sampled array

\* Element counts around each power of two where a size can wrap or cross
\* the maximum, and small ones.
CntSample ==
    {LPair(hi, lo) : hi \in {0, 2047, 2048, 8191, 8192, 16383, 16384, 32767, 32768, 65535},
                     lo \in {2, 3, 65487, 65488, 65491, 65492, 65535, 0, 1}}

\* An array a process of data model b can hold: more than one element, an
\* element count within mwSize, and, in a 32-bit address space, fewer than
\* 3 GiB of elements.
Holds(b, a) ==
    /\ LLess(L64(1), a.cntElements)
    /\ b.mwSigned => ~LNeg32(a.cntElements)
    /\ b.sizeT = 32 => LLess(LMul(a.cntElements, a.szElement), LPair(3 * (Limb \div 4), 0))

NoArr == [nDims |-> 0, cntElements |-> LZero, szElement |-> 0]
NoSized == [err |-> "idle", sizeBlob |-> LZero, overrun |-> FALSE]
NoBuild == [sizeT |-> 64, mwSigned |-> TRUE]

SizeIdle == build = NoBuild /\ arr = NoArr /\ sized = NoSized

SizeInit ==
    /\ build \in Builds
    /\ arr \in {a \in [nDims : 2..MaxNDims, cntElements : CntSample,
                       szElement : {1, 2, 4, 8}] : Holds(build, a)}
    /\ sized = NoSized
    /\ convertUTF8 = TRUE
    /\ CodecIdle
    /\ BlobIdle
    /\ MexIdle

\* The encoder computes the size of the BLOB, checks it and allocates.
SizeCheck ==
    /\ sized.err = "idle"
    /\ \E mallocOk \in BOOLEAN : sized' = BlobAlloc(build, arr, mallocOk)
    /\ UNCHANGED <<build, arr, codecVars, machineVars, blobVars, flagVars, mexVars>>

SizeNext == SizeCheck

SpecSize == SizeInit /\ [][SizeNext]_vars

(***************************************************************************)
(* C4: the encoder fails with MSG_BLOBTOOBIG exactly when the true total   *)
(* size, header offset plus element count times element size, is greater   *)
(* than the maximum BLOB size; no wrapped size passes the check.           *)
(***************************************************************************)
C4_SizeExceededExactly ==
    sized.err # "idle" =>
        /\ (sized.err = "MSG_BLOBTOOBIG") <=> LLess(MQSQLITE_MAX_BLOB_SIZE, TrueSize(arr))
        /\ ~sized.overrun

(***************************************************************************)
(* The codec's state machine: a string is drawn, one call is applied.      *)
(***************************************************************************)
CodecInit ==
    /\ convertUTF8 \in BOOLEAN
    /\ cx \in TestStrings
    /\ conv = NoConv
    /\ SizeIdle
    /\ BlobIdle
    /\ MexIdle

\* utf2latin on cx, sizing call then filling call.
CodecUtf2Latin ==
    /\ conv.op = "none"
    /\ \E t1 \in Tails, t2 \in Tails :
          conv' = TwoPass("utf2latin", Len(cx) + 1,
                          utf2latin(Append(cx, 0) \o t1, FALSE),
                          utf2latin(Append(cx, 0) \o t2, TRUE))
    /\ UNCHANGED <<convertUTF8, cx, sizeVars, machineVars, blobVars, flagVars, mexVars>>

\* latin2utf on cx, sizing call then filling call.
CodecLatin2Utf ==
    /\ conv.op = "none"
    /\ conv' = TwoPass("latin2utf", Len(cx) + 1,
                       latin2utf(Append(cx, 0), FALSE),
                       latin2utf(Append(cx, 0), TRUE))
    /\ UNCHANGED <<convertUTF8, cx, sizeVars, machineVars, blobVars, flagVars, mexVars>>

\* cx encoded by latin2utf and the encoding decoded by utf2latin.
CodecRoundTrip ==
    /\ conv.op = "none"
    /\ \E t1 \in Tails, t2 \in Tails :
          LET enc == latin2utf(Append(cx, 0), TRUE).out
          IN  conv' = TwoPass("roundtrip", Len(enc),
                              utf2latin(enc \o t1, FALSE),
                              utf2latin(enc \o t2, TRUE))
    /\ UNCHANGED <<convertUTF8, cx, sizeVars, machineVars, blobVars, flagVars, mexVars>>

CodecStrnewdup ==
    /\ conv.op = "none"
    /\ \E t1 \in Tails, t2 \in Tails : conv' = strnewdup(cx, t1, t2)
    /\ UNCHANGED <<convertUTF8, cx, sizeVars, machineVars, blobVars, flagVars, mexVars>>

CodecGetstring ==
    /\ conv.op = "none"
    /\ conv' = getstring(cx)
    /\ UNCHANGED <<convertUTF8, cx, sizeVars, machineVars, blobVars, flagVars, mexVars>>

CodecBindText ==
    /\ conv.op = "none"
    /\ conv' = bind_text(cx)
    /\ UNCHANGED <<convertUTF8, cx, sizeVars, machineVars, blobVars, flagVars, mexVars>>

CodecNext ==
    \/ CodecUtf2Latin
    \/ CodecLatin2Utf
    \/ CodecRoundTrip
    \/ CodecStrnewdup
    \/ CodecGetstring
    \/ CodecBindText

SpecCodec == CodecInit /\ [][CodecNext]_vars

(***************************************************************************)
(* The typed BLOB codec's state machine: an array is bound in typed BLOB   *)
(* mode and stored, the stored bytes may be changed outside the process,   *)
(* and the column is read back in typed BLOB mode.                         *)
(***************************************************************************)
\* "PCWIN", "GLNXA64" and "SOL64" with their byte orders.
Machines ==
    { [pf |-> <<80, 67, 87, 73, 78>>, e |-> LittleEndian],
      [pf |-> <<71, 76, 78, 88, 65, 54, 52>>, e |-> LittleEndian],
      [pf |-> <<83, 79, 76, 54, 52>>, e |-> BigEndian] }

\* n payload bytes, each position with a byte of its own.
DataPattern(seed, n) == [k \in 1..n |-> (seed + 37 * k) % 256]

\* The dimension vectors of the sampled arrays: two to MaxNDims sizes of 1
\* or 2, more than one element in all (the binder takes a scalar and an
\* empty value elsewhere).
DimVectors ==
    {d \in SeqsUpTo({1, 2}, MaxNDims) : Len(d) >= 2 /\ Product(d) > 1}

\* The arrays the binder hands the encoder: mxCHAR_CLASS goes to the text
\* branch, every other supported class comes here.
Items ==
    {[clsid |-> c, dims |-> d, data |-> DataPattern(seed, Product(d) * mxGetElementSize(c))] :
        c \in TypedBlobClasses \ {mxClassID.mxCHAR_CLASS}, d \in DimVectors, seed \in {11, 200}}

JunkBytes == {0, 170}

BlobInit ==
    /\ \E m \in Machines : g_platform = m.pf /\ g_endian = m.e
    /\ item \in Items
    /\ blob = <<>> /\ tamper = NoTamper /\ dec = NoDec /\ bpc = "item"
    /\ convertUTF8 = TRUE
    /\ CodecIdle
    /\ SizeIdle
    /\ MexIdle

\* The binder encodes item and the engine stores the BLOB.
BlobEncode ==
    /\ bpc = "item"
    /\ \E mallocOk \in BOOLEAN, junk \in JunkBytes :
          LET r == EncodeTypedBlob(build, item, g_platform, g_endian, mallocOk, junk)
          IN  /\ blob' = r.bytes
              /\ bpc' = IF r.err = "none" THEN "stored" ELSE "failed"
    /\ UNCHANGED <<codecVars, sizeVars, machineVars, item, tamper, dec, flagVars, mexVars>>

\* The database file comes from another machine, which encoded item there.
BlobForeign ==
    /\ bpc = "item"
    /\ \E m \in Machines, junk \in JunkBytes :
          /\ m.e # g_endian
          /\ blob' = EncodeTypedBlob(build, item, m.pf, m.e, TRUE, junk).bytes
    /\ tamper' = [kind |-> "foreign", pos |-> 0]
    /\ bpc' = "stored"
    /\ UNCHANGED <<codecVars, sizeVars, machineVars, item, dec, flagVars, mexVars>>

\* The column was written with typed BLOBs off: the BLOB is the bytes of
\* the elements, without a header.
BlobUntyped ==
    /\ bpc = "item"
    /\ blob' = item.data
    /\ tamper' = [kind |-> "untyped", pos |-> 0]
    /\ bpc' = "stored"
    /\ UNCHANGED <<codecVars, sizeVars, machineVars, item, dec, flagVars, mexVars>>

\* One byte of the magic tag (its 12 characters and its terminator) changed.
TamperMagic ==
    /\ bpc = "stored" /\ tamper.kind = "none"
    /\ \E pos \in 0..(Len(TBH_MAGIC) - 1), delta \in {1, 32} :
          /\ blob' = Poke(blob, TBH_OFF_MAGIC + pos, <<(blob[TBH_OFF_MAGIC + pos + 1] + delta) % 256>>)
          /\ tamper' = [kind |-> "magic", pos |-> pos]
    /\ UNCHANGED <<codecVars, sizeVars, machineVars, item, dec, bpc, flagVars, mexVars>>

\* The last byte of the BLOB cut off.
TamperTruncate ==
    /\ bpc = "stored" /\ tamper.kind = "none"
    /\ blob' = SubSeq(blob, 1, Len(blob) - 1)
    /\ tamper' = [kind |-> "truncate", pos |-> Len(blob) - 1]
    /\ UNCHANGED <<codecVars, sizeVars, machineVars, item, dec, bpc, flagVars, mexVars>>

\* One byte added behind the payload.
TamperExtend ==
    /\ bpc = "stored" /\ tamper.kind = "none"
    /\ blob' = Append(blob, 85)
    /\ tamper' = [kind |-> "extend", pos |-> Len(blob)]
    /\ UNCHANGED <<codecVars, sizeVars, machineVars, item, dec, bpc, flagVars, mexVars>>

\* The platform name of the header replaced by another machine's.
TamperPlatform ==
    /\ bpc = "stored" /\ tamper.kind = "none"
    /\ \E m \in Machines :
          /\ m.pf # g_platform
          /\ blob' = Poke(blob, TBH_OFF_PLATFORM, ZeroPadded(m.pf, PLATFORM_CMPLEN))
    /\ tamper' = [kind |-> "platform", pos |-> TBH_OFF_PLATFORM]
    /\ UNCHANGED <<codecVars, sizeVars, machineVars, item, dec, bpc, flagVars, mexVars>>

\* The endianness flag of the header replaced by the other one.
TamperEndianFlag ==
    /\ bpc = "stored" /\ tamper.kind = "none"
    /\ blob' = Poke(blob, TBH_OFF_ENDIAN,
                    <<IF g_endian = LittleEndian THEN BigEndian ELSE LittleEndian>>)
    /\ tamper' = [kind |-> "endian", pos |-> TBH_OFF_ENDIAN]
    /\ UNCHANGED <<codecVars, sizeVars, machineVars, item, dec, bpc, flagVars, mexVars>>

\* The version field of the header set to a larger header size.
TamperVersion ==
    /\ bpc = "stored" /\ tamper.kind = "none"
    /\ blob' = Poke(blob, TBH_OFF_VER, Store16(TBH_SIZEOF + 4, g_endian))
    /\ tamper' = [kind |-> "version", pos |-> TBH_OFF_VER]
    /\ UNCHANGED <<codecVars, sizeVars, machineVars, item, dec, bpc, flagVars, mexVars>>

\* The first declared dimension size raised by one.
TamperDims ==
    /\ bpc = "stored" /\ tamper.kind = "none"
    /\ blob' = Poke(blob, TBH_OFF_SIZEDIMS + 4, Store32(item.dims[1] + 1, g_endian))
    /\ tamper' = [kind |-> "dims", pos |-> TBH_OFF_SIZEDIMS + 4]
    /\ UNCHANGED <<codecVars, sizeVars, machineVars, item, dec, bpc, flagVars, mexVars>>

\* The column is read back and rendered in typed BLOB mode.
BlobDecode ==
    /\ bpc = "stored"
    /\ \E junk \in JunkBytes : dec' = DecodeTypedBlob(blob, g_platform, g_endian, junk)
    /\ bpc' = "decoded"
    /\ UNCHANGED <<codecVars, sizeVars, machineVars, item, blob, tamper, flagVars, mexVars>>

BlobNext ==
    \/ BlobEncode
    \/ BlobForeign
    \/ BlobUntyped
    \/ TamperMagic
    \/ TamperTruncate
    \/ TamperExtend
    \/ TamperPlatform
    \/ TamperEndianFlag
    \/ TamperVersion
    \/ TamperDims
    \/ BlobDecode

SpecBlob == BlobInit /\ [][BlobNext]_vars

(***************************************************************************)
(* mexFunction.  A call runs from "idle" through the steps of the command  *)
(* to the finalize label and back to "idle".  The engine is outside the    *)
(* process: what sqlite3_prepare_v2, sqlite3_step and the column           *)
(* accessors return is drawn at the call that asks for it.                 *)
(***************************************************************************)
mxArr(clsid, dims, data) ==
    [clsid |-> clsid, dims |-> dims, data |-> data, complex |-> FALSE, cells |-> <<>>]

mxCell(items) ==
    [clsid |-> mxClassID.mxCELL_CLASS, dims |-> <<Len(items), 1>>, data |-> <<>>,
     complex |-> FALSE, cells |-> items]

mxIsEmpty(it) == mxGetNumberOfElements(it) = 0
mxIsCell(it) == it.clsid = mxClassID.mxCELL_CLASS
\* No array is a struct.
mxIsStructNever(it) == FALSE

mxIsStruct(it) == it.clsid = mxClassID.mxSTRUCT_CLASS
mxIsChar(it) == it.clsid = mxClassID.mxCHAR_CLASS

\* A logical scalar, false.
LogicalScalar == mxArr(mxClassID.mxLOGICAL_CLASS, <<1, 1>>, <<0>>)

\* mxCreateLogicalMatrix( 0, 0 )
EmptyLogical == mxArr(mxClassID.mxLOGICAL_CLASS, <<0, 0>>, <<>>)

\* The classes the scalar switch binds with sqlite3_bind_int, and with
\* sqlite3_bind_double.
BindIntClasses ==
    { mxClassID.mxLOGICAL_CLASS, mxClassID.mxINT8_CLASS, mxClassID.mxUINT8_CLASS,
      mxClassID.mxINT16_CLASS, mxClassID.mxINT32_CLASS, mxClassID.mxUINT16_CLASS,
      mxClassID.mxUINT32_CLASS }
BindDoubleClasses == { mxClassID.mxDOUBLE_CLASS, mxClassID.mxSINGLE_CLASS }

\* A placeholder nothing was bound to: the engine reads it as NULL.
NoSlot == [type |-> "null", bytes |-> <<>>]

\* The arguments taken as a list whatever their number: the count checks
\* left out.
CollectArgsUncounted(args, bind_names_count) ==
    [err |-> "none",
     pArgs |-> [alloc |-> TRUE,
                cells |-> [i \in 1..bind_names_count |->
                              IF i <= Len(args) THEN args[i] ELSE EmptyLogical]]]

\* The parameter collection: the arguments as a list, padded with empty
\* arrays to the count of placeholders, or the one cell argument copied.
CollectArgs(args, bind_names_count) ==
    LET NumArgs == Len(args)
    IN  IF bind_names_count = 0 /\ NumArgs > 0
        THEN [err |-> "MSG_UNEXPECTEDARG", pArgs |-> NoArgs]
        ELSE IF NumArgs = 0 \/ ~mxIsCell(args[1])
        THEN IF NumArgs > bind_names_count
             THEN [err |-> "MSG_UNEXPECTEDARG", pArgs |-> NoArgs]
             ELSE [err |-> "none",
                   pArgs |-> [alloc |-> TRUE,
                              cells |-> [i \in 1..bind_names_count |->
                                            IF i <= NumArgs THEN args[i] ELSE EmptyLogical]]]
        ELSE IF NumArgs > 1
             THEN [err |-> "MSG_UNEXPECTEDARG", pArgs |-> NoArgs]
             ELSE [err |-> "none", pArgs |-> [alloc |-> TRUE, cells |-> args[1].cells]]

\* One pass of the binding loop for an item that is there and not empty:
\* the slot's new content, or the error.  bindRes is what the engine's
\* sqlite3_bind_* call returns.
BindItem(it, bindRes, mallocOk, junk) ==
    LET cntElements == mxGetNumberOfElements(it)
        sql(slot) == IF bindRes = "SQLITE_OK" THEN [err |-> "none", slot |-> slot]
                     ELSE [err |-> "SQL_ERR", slot |-> NoSlot]
        fail(msg) == [err |-> msg, slot |-> NoSlot]
    IN  IF it.complex \/ mxIsCell(it) \/ mxIsStruct(it) THEN fail("MSG_UNSUPPVARTYPE")
        ELSE IF cntElements > 1 /\ ~mxIsChar(it)
        THEN IF ~use_typed_blobs
             THEN sql([type |-> "blob", bytes |-> it.data])
             ELSE LET enc == EncodeTypedBlob(NoBuild, it, g_platform, g_endian, mallocOk, junk)
                  IN  IF enc.err # "none" THEN fail(enc.err)
                      ELSE sql([type |-> "blob", bytes |-> enc.bytes])
        ELSE IF it.clsid \in BindIntClasses THEN sql([type |-> "int", bytes |-> it.data])
        ELSE IF it.clsid \in BindDoubleClasses THEN sql([type |-> "double", bytes |-> it.data])
        ELSE IF mxIsChar(it)
        THEN LET t == bind_text(it.data)
             IN  IF ~mallocOk /\ convertUTF8 THEN fail("MSG_MEMERROR")
                 ELSE sql([type |-> "text", bytes |-> SubSeq(t.out, 1, t.n2 - 1)])
        ELSE fail("MSG_INVALIDARG")

\* A binder that looks at no item and reports no error.
BindParamsNone(cells, iParam, bind_names_count, bound, bindRes, mallocOk, junk) ==
    [err |-> "none", bound |-> bound]

\* The binding loop from placeholder iParam on: mxGetCell gives NULL behind
\* the last element of the collection.
RECURSIVE BindParams(_, _, _, _, _, _, _)
BindParams(cells, iParam, bind_names_count, bound, bindRes, mallocOk, junk) ==
    IF iParam > bind_names_count THEN [err |-> "none", bound |-> bound]
    ELSE IF iParam > Len(cells) \/ mxIsEmpty(cells[iParam])
    THEN BindParams(cells, iParam + 1, bind_names_count, bound, bindRes, mallocOk, junk)
    ELSE LET r == BindItem(cells[iParam], bindRes, mallocOk, junk)
         IN  IF r.err # "none" THEN [err |-> r.err, bound |-> bound]
             ELSE BindParams(cells, iParam + 1, bind_names_count,
                             [bound EXCEPT ![iParam] = r.slot], bindRes, mallocOk, junk)

\* isalnum() in the "C" locale.
isalnum(c) == c \in 48..57 \/ c \in 65..90 \/ c \in 97..122

\* The column name as copied into fieldnames[iCol]: every character that
\* is not alphanumeric becomes '_' (95).
SanitizeName(cname) == [k \in 1..Len(cname) |-> IF isalnum(cname[k]) THEN cname[k] ELSE 95]

\* sprintf "%d" of k in 1..99, and "%s_%d".
DecimalDigits(k) == IF k < 10 THEN <<48 + k>> ELSE <<48 + (k \div 10), 48 + (k % 10)>>
SuffixedName(name, k) == name \o <<95>> \o DecimalDigits(k)

\* A search that takes the first candidate without comparing it.
UniqueSuffixFirst(names, jCol, k) == k

\* The k the search loop for a unique name ends with when it starts at
\* k: the first k whose name no column bears, 100 when there is none.
UniqueSuffix(names, jCol, k) ==
    LET unique == {k2 \in k..99 :
                      \A lCol \in 1..Len(names) : names[lCol] # SuffixedName(names[jCol], k2)}
    IN  IF unique = {} THEN 100
        ELSE CHOOSE k2 \in unique : \A k3 \in unique : k2 <= k3

\* The two loops left out: every column keeps its name.
UniqueNamesKept(s, iCol, jCol) == s

\* The loop over jCol behind iCol, from its next pass that finds the
\* two names equal: s.names are the field names, s.warn tells whether
\* MSG_MSGUNIQUEWARN was raised, s.lost are the buffers of newcolumnname
\* that were neither assigned nor deleted.
RECURSIVE UniqueBehind(_, _, _)
UniqueBehind(s, iCol, jCol) ==
    LET equal == {j \in jCol..Len(s.names) : s.names[iCol] = s.names[j]}
    IN  IF equal = {} THEN s
        ELSE LET j == CHOOSE j \in equal : \A j2 \in equal : j <= j2
                 k == UniqueSuffix(s.names, j, 1)
             IN  IF k = 100
                 THEN UniqueBehind([s EXCEPT !.warn = TRUE,
                                             !.lost = @ \cup {<<"newcolumnname", iCol, j>>}],
                                   iCol, j + 1)
                 ELSE UniqueBehind([s EXCEPT !.names[j] = SuffixedName(s.names[j], k)],
                                   iCol, j + 1)

\* The loop over iCol, from the pair iCol, jCol on: the passes that find
\* no name behind iCol equal to it change nothing.
RECURSIVE UniqueNames(_, _, _)
UniqueNames(s, iCol, jCol) ==
    LET ncol == Len(s.names)
        from(i) == IF i = iCol THEN jCol ELSE i + 1
        equal == {i \in iCol..(ncol - 1) :
                     \E j \in from(i)..ncol : s.names[i] = s.names[j]}
    IN  IF equal = {} THEN s
        ELSE LET i == CHOOSE i \in equal : \A i2 \in equal : i <= i2
             IN  UniqueNames(UniqueBehind(s, i, from(i)), i + 1, i + 2)

\* The names as copied and made valid, without the check for duplicates.
FieldNamesCopied(cnames) ==
    [names |-> [iCol \in 1..Len(cnames) |-> SanitizeName(cnames[iCol])],
     warn |-> FALSE, lost |-> {}]

\* The field names of a statement with the columns cnames.
FieldNames(cnames) ==
    LET copied == [iCol \in 1..Len(cnames) |-> SanitizeName(cnames[iCol])]
        s0 == [names |-> copied, warn |-> FALSE, lost |-> {}]
    IN  IF check4uniquefields THEN UniqueNames(s0, 1, 2) ELSE s0

\* The objects new gives for the field names of ncol columns.
NameObjects(ncol) == {<<"fieldnames", 0, 0>>} \cup {<<"fieldname", iCol, 0>> : iCol \in 1..ncol}

\* A decoding that gives every BLOB and every text a buffer of its own.
DecodeColumnOwned(col) ==
    [m_Type |-> col.type, m_Size |-> Len(col.bytes),
     hasString |-> col.type \in {"SQLITE_TEXT", "SQLITE_BLOB"},
     m_StringValue |-> col.bytes,
     m_NumericValue |-> IF col.type = "SQLITE_NULL" THEN "NaN" ELSE col.num]

\* One column of the current row as the engine gives it, decoded into a
\* Value.  The constructor leaves m_StringValue 0.
DecodeColumn(col) ==
    LET v0 == [m_Type |-> col.type, m_Size |-> 0, hasString |-> FALSE,
               m_StringValue |-> <<>>, m_NumericValue |-> "0"]
    IN  CASE col.type = "SQLITE_NULL" -> [v0 EXCEPT !.m_NumericValue = "NaN"]
          [] col.type \in {"SQLITE_INTEGER", "SQLITE_FLOAT"} ->
                [v0 EXCEPT !.m_NumericValue = col.num]
          [] col.type = "SQLITE_TEXT" ->
                [v0 EXCEPT !.hasString = TRUE,
                           !.m_StringValue = strnewdup(col.bytes, <<>>, <<>>).out]
          [] col.type = "SQLITE_BLOB" ->
                IF Len(col.bytes) > 0
                THEN [v0 EXCEPT !.m_Size = Len(col.bytes), !.hasString = TRUE,
                                !.m_StringValue = col.bytes]
                ELSE v0

\* The objects new gives for row number k with the values vs: the Values
\* node, its array of Value, and each string or BLOB buffer.
RowObjects(k, vs) ==
    {<<"Values", k, 0>>, <<"m_Values", k, 0>>}
        \cup {<<"m_StringValue", k, j>> : j \in {i \in 1..Len(vs) : vs[i].hasString}}

\* An array handed to mxSetFieldByNumber.
mxOut(kind, clsid, dims, data, num) ==
    [kind |-> kind, clsid |-> clsid, dims |-> dims, data |-> data, num |-> num]

\* mxCreateString reads to the first 0.
RECURSIVE CString(_)
CString(bs) == IF bs = <<>> \/ Head(bs) = 0 THEN <<>> ELSE <<Head(bs)>> \o CString(Tail(bs))

EmptyDouble == mxOut("double", mxClassID.mxDOUBLE_CLASS, <<0, 0>>, <<>>, "")

\* Every Value rendered as the scalar of its m_NumericValue.
RenderValueNumeric(v, junk) ==
    [err |-> "none", warn |-> FALSE,
     out |-> mxOut("double", mxClassID.mxDOUBLE_CLASS, <<1, 1>>, <<>>, v.m_NumericValue)]

\* One field of a record: the array made of the Value, or the error the
\* call ends with.  junk is what a read behind a BLOB's buffer finds.
RenderValue(v, junk) ==
    LET ok(a, w) == [err |-> "none", warn |-> w, out |-> a]
    IN  IF v.m_Type = "SQLITE_TEXT"
        THEN ok(mxOut("char", mxClassID.mxCHAR_CLASS, <<1, Len(CString(v.m_StringValue))>>,
                      CString(v.m_StringValue), ""), FALSE)
        ELSE IF v.m_Type = "SQLITE_NULL" /\ ~NULLasNaN THEN ok(EmptyDouble, FALSE)
        ELSE IF v.m_Type = "SQLITE_BLOB"
        THEN IF v.m_Size > 0
             THEN IF ~use_typed_blobs
                  THEN ok(mxOut("uint8", mxClassID.mxUINT8_CLASS, <<1, v.m_Size>>,
                                v.m_StringValue, ""), FALSE)
                  ELSE LET d == DecodeTypedBlob(v.m_StringValue, g_platform, g_endian, junk)
                       IN  IF d.err # "none"
                           THEN [err |-> d.err, warn |-> d.warn, out |-> EmptyDouble]
                           ELSE ok(mxOut("typed", d.clsid, d.dims, d.data, ""), d.warn)
             ELSE ok(EmptyDouble, FALSE)
        ELSE ok(mxOut("double", mxClassID.mxDOUBLE_CLASS, <<1, 1>>, <<>>, v.m_NumericValue),
                FALSE)

\* The record behind the loop over its fields: f are the fields from
\* fieldnr on as RenderValue gives them, r is what the fields before have
\* given; the loop ends at the first error.
FieldsSet(f, fieldnr, r) ==
    LET failed == {i \in DOMAIN f : f[i].err # "none"}
        last == IF failed = {} THEN fieldnr + Cardinality(DOMAIN f) - 1
                ELSE CHOOSE i \in failed : \A i2 \in failed : i <= i2
        set == IF failed = {} THEN last ELSE last - 1
    IN  [err |-> IF failed = {} THEN r.err ELSE f[last].err,
         warn |-> r.warn \/ \E i \in fieldnr..last : f[i].warn,
         out |-> r.out \o [i \in 1..(set - fieldnr + 1) |-> f[fieldnr + i - 1].out]]

\* The fields of one record from fieldnr on, up to the first error.
RenderRecord(vs, fieldnr, r, junk) ==
    FieldsSet([i \in fieldnr..Len(vs) |-> RenderValue(vs[i], junk)], fieldnr, r)

(***************************************************************************)
(* What the model calls mexFunction with, and what the engine answers.     *)
(***************************************************************************)
MaxRows == 2       \* most rows the engine gives for one statement
MaxParams == 2     \* most placeholders of a sampled statement

\* The column names of the sampled statements: "a"; "a", "b"; "a", "a";
\* "a b", "a_b"; "a", "a", "a_1".
ColumnNames ==
    { <<(<<97>>)>>,
      << <<97>>, <<98>> >>,
      << <<97>>, <<97>> >>,
      << <<97, 32, 98>>, <<97, 95, 98>> >>,
      << <<97>>, <<97>>, <<97, 95, 49>> >> }

\* What sqlite3_complete and sqlite3_prepare_v2 make of the query text:
\* statements without columns and up to MaxParams placeholders, statements
\* with columns, a text that ends in a semicolon, a text with an error.
Queries ==
    {[complete |-> FALSE, prepares |-> TRUE, nparams |-> n, names |-> <<>>] :
        n \in 0..MaxParams}
    \cup {[complete |-> FALSE, prepares |-> TRUE, nparams |-> 0, names |-> nv] :
        nv \in ColumnNames}
    \cup {[complete |-> TRUE, prepares |-> TRUE, nparams |-> 0, names |-> <<>>],
          [complete |-> FALSE, prepares |-> FALSE, nparams |-> 0, names |-> <<>>]}

\* An empty array, scalars of int32, double and int64, the text "a" and a
\* Latin-1 character, a vector of three uint8, a complex scalar, a cell
\* with one element, and a struct.
ArgSample ==
    { mxArr(mxClassID.mxDOUBLE_CLASS, <<0, 0>>, <<>>),
      mxArr(mxClassID.mxINT32_CLASS, <<1, 1>>, <<7, 0, 0, 0>>),
      mxArr(mxClassID.mxDOUBLE_CLASS, <<1, 1>>, DataPattern(11, 8)),
      mxArr(mxClassID.mxINT64_CLASS, <<1, 1>>, DataPattern(200, 8)),
      mxArr(mxClassID.mxCHAR_CLASS, <<1, 2>>, <<97, 228>>),
      mxArr(mxClassID.mxUINT8_CLASS, <<1, 3>>, <<1, 2, 3>>),
      [mxArr(mxClassID.mxDOUBLE_CLASS, <<1, 1>>, DataPattern(11, 8)) EXCEPT !.complex = TRUE],
      mxCell(<<mxArr(mxClassID.mxINT32_CLASS, <<1, 1>>, <<7, 0, 0, 0>>)>>),
      mxArr(mxClassID.mxSTRUCT_CLASS, <<1, 1>>, <<>>) }

\* The arguments that stand behind the last placeholder's value: what
\* they are is not looked at unless the first one is a cell.
ExcessSample ==
    { mxArr(mxClassID.mxINT32_CLASS, <<1, 1>>, <<7, 0, 0, 0>>),
      mxCell(<<mxArr(mxClassID.mxINT32_CLASS, <<1, 1>>, <<7, 0, 0, 0>>)>>) }

\* The arguments behind the query for a statement of n placeholders: up
\* to n of ArgSample, or up to one more than the placeholders of
\* ExcessSample, as a list or packed into one cell.
ArgLists ==
    [n \in 0..MaxParams |->
        LET lists == SeqsUpTo(ArgSample, n) \cup SeqsUpTo(ExcessSample, n + 1)
        IN  lists \cup {<<mxCell(l)>> : l \in lists}]

\* The first argument: no number, or the number given.
DbArgs ==
    {[numeric |-> FALSE, id |-> 0]}
        \cup {[numeric |-> TRUE, id |-> i] : i \in {-1, 0, 1, 2, MaxNumOfDbs, MaxNumOfDbs + 1}}

\* The machine the process runs on.
ThisMachine == [pf |-> <<71, 76, 78, 88, 65, 54, 52>>, e |-> LittleEndian]

\* The columns the engine gives: NULL, an integer, a text ("a" and U+00E4
\* in UTF-8), an empty BLOB, a BLOB of three bytes, and a typed BLOB this
\* machine has stored.
Column(type, bytes, num) == [type |-> type, bytes |-> bytes, num |-> num]
ColumnSample ==
    << Column("SQLITE_NULL", <<>>, ""),
       Column("SQLITE_INTEGER", <<>>, "42"),
       Column("SQLITE_TEXT", <<97, 195, 164>>, ""),
       Column("SQLITE_BLOB", <<>>, ""),
       Column("SQLITE_BLOB", <<1, 2, 3>>, ""),
       Column("SQLITE_BLOB",
              TypedBlobBytes(mxArr(mxClassID.mxUINT8_CLASS, <<1, 3>>, <<1, 2, 3>>),
                             TBH_DATA_OFFSET(2) + 3, ThisMachine.pf, ThisMachine.e, 0),
              "") >>

\* The row the engine gives: the columns take the samples in turn, from
\* sample number p on.
EngineRow(ncol, p) ==
    [jCol \in 1..ncol |-> ColumnSample[((p + jCol - 2) % Len(ColumnSample)) + 1]]

StepResults == {"SQLITE_ROW", "SQLITE_DONE", "SQLITE_ERROR"}

\* FINALIZE( msg )
Finalizing(msg) == g_finalize_msg' = msg /\ pc' = "finalize"

\* The process after its first call has opened a database without a
\* database number: slot 0 holds the connection, and the call returned.
Init ==
    /\ convertUTF8 = TRUE
    /\ FlagDefaults
    /\ g_platform = ThisMachine.pf /\ g_endian = ThisMachine.e
    /\ g_dbs = [i \in 0..(MaxNumOfDbs - 1) |-> IF i = 0 THEN 1 ELSE 0]
    /\ connections = {1}
    /\ BetweenCalls
    /\ heap = {} /\ ret = NoRet
    /\ CodecIdle /\ SizeIdle
    /\ item = NoItem /\ blob = <<>> /\ tamper = NoTamper /\ dec = NoDec /\ bpc = "idle"

otherVars == <<cx, conv, sizeVars, machineVars, blobVars>>

\* Entry of a call: the locals and g_finalize_msg are set, and what the
\* call before has returned is gone.  A process that has lost objects on
\* its heap is not called again.
Enter ==
    /\ pc = "returned"
    /\ heap = {}
    /\ pc' = "entry"
    /\ g_finalize_msg' = "NULL"
    /\ command' = FALSE /\ pArgs' = NoArgs /\ st' = NoStmt
    /\ step_res' = "none" /\ warnings' = {} /\ ret' = NoRet
    /\ UNCHANGED <<convertUTF8, flagVars, g_dbs, connections, call, fieldnames, allrows, rowcount,
                   heap, plhs, otherVars>>

\* A call without a command string.
UsageCall ==
    /\ pc = "entry"
    /\ Finalizing("MSG_INVALIDARG")
    /\ UNCHANGED <<convertUTF8, flagVars, g_dbs, connections, call, command, pArgs, st, fieldnames,
                   allrows, rowcount, step_res, heap, plhs, warnings, ret, otherVars>>

\* The four flag commands: without an argument the flag is returned, with
\* one numeric argument it is set.
FlagNames == {"check4uniquefields", "convertUTF8", "typedBLOBs", "NULLasNaN"}
FlagValue(name) ==
    CASE name = "check4uniquefields" -> check4uniquefields
      [] name = "convertUTF8" -> convertUTF8
      [] name = "typedBLOBs" -> use_typed_blobs
      [] name = "NULLasNaN" -> NULLasNaN

FlagArgs ==
    { <<>>,
      <<mxArr(mxClassID.mxDOUBLE_CLASS, <<1, 1>>, <<0>>)>>,
      <<mxArr(mxClassID.mxDOUBLE_CLASS, <<1, 1>>, <<1>>)>>,
      <<mxArr(mxClassID.mxCHAR_CLASS, <<1, 1>>, <<97>>)>> }

mxIsNumeric(it) == it.clsid \in (BindIntClasses \ {mxClassID.mxLOGICAL_CLASS})
                       \cup BindDoubleClasses
                       \cup {mxClassID.mxINT64_CLASS, mxClassID.mxUINT64_CLASS}

FlagCommand ==
    /\ pc = "entry"
    /\ \E name \in FlagNames, args \in FlagArgs :
        LET NumArgs == Len(args)
            bad == NumArgs # 0 /\ (NumArgs # 1 \/ ~mxIsNumeric(args[1]))
            set == NumArgs = 1 /\ ~bad
            v == args[1].data[1] # 0
        IN  /\ call' = [NoCall EXCEPT !.command = name]
            /\ command' = TRUE
            /\ g_finalize_msg' = IF bad THEN "MSG_INVALIDARG" ELSE "NULL"
            /\ pc' = "finalize"
            /\ plhs' = IF NumArgs = 0
                       THEN [NoPlhs EXCEPT !.kind = "scalar", !.scalar = FlagValue(name)]
                       ELSE NoPlhs
            /\ check4uniquefields' =
                   IF set /\ name = "check4uniquefields" THEN v ELSE check4uniquefields
            /\ convertUTF8' = IF set /\ name = "convertUTF8" THEN v ELSE convertUTF8
            /\ use_typed_blobs' = IF set /\ name = "typedBLOBs" THEN v ELSE use_typed_blobs
            /\ NULLasNaN' = IF set /\ name = "NULLasNaN" THEN v ELSE NULLasNaN
            /\ UNCHANGED <<g_dbs, connections, pArgs, st, fieldnames, allrows, rowcount, step_res,
                           heap, warnings, ret, otherVars>>

\* Any other command is a query: the database number, the open check,
\* sqlite3_complete and sqlite3_prepare_v2.
QueryCall ==
    /\ pc = "entry"
    /\ \E db \in DbArgs, q \in Queries :
        LET db_id == IF db.numeric THEN db.id - 1 ELSE 0
            fails(cmd, msg) ==
                /\ command' = cmd /\ Finalizing(msg) /\ UNCHANGED st
        IN  /\ call' = [command |-> "query", db_id |-> db_id, NumArgs |-> 0,
                         FirstIsCell |-> FALSE, query |-> q,
                         indexed |-> IF (db.numeric /\ (db.id < 0 \/ db.id > MaxNumOfDbs))
                                        \/ db_id < 0
                                     THEN {} ELSE {db_id}]
            /\ UNCHANGED <<convertUTF8, flagVars, g_dbs, connections, pArgs, fieldnames, allrows,
                           rowcount, step_res, heap, plhs, warnings, ret, otherVars>>
            /\ IF db.numeric /\ (db.id < 0 \/ db.id > MaxNumOfDbs)
               THEN fails(FALSE, "MSG_IMPOSSIBLE")
               ELSE IF db_id < 0 THEN fails(TRUE, "MSG_IMPOSSIBLE")
               ELSE IF g_dbs[db_id] = 0 THEN fails(TRUE, "MSG_DBNOTOPEN")
               ELSE IF q.complete THEN fails(TRUE, "MSG_INVQUERY")
               ELSE IF ~q.prepares THEN fails(TRUE, "SQL_ERR")
               ELSE /\ command' = TRUE
                    /\ st' = [NoStmt EXCEPT !.prepared = TRUE,
                                            !.bound = [i \in 1..q.nparams |-> NoSlot]]
                    /\ pc' = "bind"
                    /\ UNCHANGED g_finalize_msg

\* The parameter binding: the arguments behind the query are collected
\* and bound to the placeholders in turn.
BindParameters ==
    /\ pc = "bind"
    /\ \E bindRes \in {"SQLITE_OK", "SQLITE_NOMEM"}, mallocOk \in BOOLEAN, junk \in JunkBytes,
          args \in ArgLists[call.query.nparams] :
        LET bind_names_count == call.query.nparams
            c == CollectArgs(args, bind_names_count)
            b == BindParams(c.pArgs.cells, 1, bind_names_count, st.bound,
                            bindRes, mallocOk, junk)
        IN  /\ call' = [call EXCEPT !.NumArgs = Len(args),
                                    !.FirstIsCell = Len(args) > 0 /\ mxIsCell(args[1])]
            /\ pArgs' = c.pArgs
            /\ IF c.err # "none" THEN Finalizing(c.err) /\ UNCHANGED st
               ELSE /\ st' = [st EXCEPT !.bound = b.bound]
                    /\ IF b.err # "none" THEN Finalizing(b.err)
                       ELSE pc' = "columns" /\ UNCHANGED g_finalize_msg
            /\ UNCHANGED <<convertUTF8, flagVars, g_dbs, connections, command, fieldnames, allrows,
                           rowcount, step_res, heap, plhs, warnings, ret, otherVars>>

\* The column names: copied, made valid, made unique.
Columns ==
    /\ pc = "columns"
    /\ LET cnames == call.query.names
           f == FieldNames(cnames)
       IN  IF Len(cnames) > 0
           THEN /\ fieldnames' = f.names
                /\ heap' = heap \cup NameObjects(Len(cnames)) \cup f.lost
                /\ warnings' = IF f.warn THEN warnings \cup {"MSG_MSGUNIQUEWARN"}
                               ELSE warnings
                /\ pc' = "step"
           ELSE /\ pc' = "noresult"
                /\ UNCHANGED <<fieldnames, heap, warnings>>
    /\ UNCHANGED <<convertUTF8, flagVars, g_dbs, connections, call, g_finalize_msg, command, pArgs, st,
                   allrows, rowcount, step_res, plhs, ret, otherVars>>

\* A list that takes the new row at its head.
PushRow(rows, RecordValues) == <<RecordValues>> \o rows

\* The row is added to the list of all result rows: it becomes allrows
\* when the list is empty, and the node behind lastrow otherwise.
AppendRow(rows, RecordValues) == Append(rows, RecordValues)

\* One pass of the loop over sqlite3_step: the loop ends, or a row is
\* decoded and appended to the list.
StepRow ==
    /\ pc = "step"
    /\ \E res \in StepResults, p \in 1..Len(ColumnSample) :
        /\ res = "SQLITE_ROW" => rowcount < MaxRows
        /\ res # "SQLITE_ROW" => p = 1
        /\ step_res' = res
        /\ IF res # "SQLITE_ROW"
           THEN /\ pc' = "collected"
                /\ UNCHANGED <<allrows, rowcount, heap>>
           ELSE LET ncol == Len(fieldnames)
                    row == EngineRow(ncol, p)
                    vs == [jCol \in 1..ncol |-> DecodeColumn(row[jCol])]
                    k == rowcount + 1
                IN  /\ allrows' = AppendRow(allrows, [k |-> k, m_Values |-> vs])
                    /\ heap' = heap \cup RowObjects(k, vs)
                    /\ rowcount' = k
                    /\ pc' = "step"
    /\ UNCHANGED <<convertUTF8, flagVars, g_dbs, connections, call, g_finalize_msg, command, pArgs, st,
                   fieldnames, plhs, warnings, ret, otherVars>>

\* An array of structs without rows and without fields.
EmptyStructArray == [NoPlhs EXCEPT !.kind = "struct"]

\* plhs[0] = mxCreateDoubleMatrix(0, 0, mxREAL)
EmptyMatrix == [NoPlhs EXCEPT !.kind = "empty"]

\* sqlite3_finalize without st = NULL behind it.
FinalizedKept(s) == [s EXCEPT !.finalized = @ + 1]

\* sqlite3_finalize
Finalized(s) == [s EXCEPT !.prepared = FALSE, !.finalized = @ + 1]

\* Behind the loop: the statement is finalized and the output is created,
\* an empty matrix or an array of rowcount structs.
EndOfRows ==
    /\ pc = "collected"
    /\ st' = Finalized(st)
    /\ IF rowcount = 0
       THEN /\ plhs' = EmptyMatrix
            /\ pc' = "names"
       ELSE /\ plhs' = [NoPlhs EXCEPT !.kind = "struct", !.names = fieldnames]
            /\ pc' = "transcribe"
    /\ UNCHANGED <<convertUTF8, flagVars, g_dbs, connections, call, g_finalize_msg, command, pArgs,
                   fieldnames, allrows, rowcount, step_res, heap, warnings, ret, otherVars>>

\* One pass of the loop over the list: the fields of one record are set
\* and the row is deleted, or a field ends the call.
TranscribeRow ==
    /\ pc = "transcribe"
    /\ allrows # <<>>
    /\ \E junk \in JunkBytes :
        LET lastrow == Head(allrows)
            r == RenderRecord(lastrow.m_Values, 1,
                              [err |-> "none", warn |-> FALSE, out |-> <<>>], junk)
        IN  /\ plhs' = [plhs EXCEPT !.records = Append(@, r.out)]
            /\ warnings' = IF r.warn THEN warnings \cup {"MSG_WARNDIFFARCH"} ELSE warnings
            /\ IF r.err # "none"
               THEN /\ Finalizing(r.err)
                    /\ UNCHANGED <<allrows, heap>>
               ELSE /\ allrows' = Tail(allrows)
                    /\ heap' = heap \ RowObjects(lastrow.k, lastrow.m_Values)
                    /\ pc' = IF Tail(allrows) = <<>> THEN "names" ELSE "transcribe"
                    /\ UNCHANGED g_finalize_msg
    /\ UNCHANGED <<convertUTF8, flagVars, g_dbs, connections, call, command, pArgs, st, fieldnames,
                   rowcount, step_res, ret, otherVars>>

\* The field names are deleted.
FreeNames ==
    /\ pc = "names"
    /\ heap' = heap \ NameObjects(Len(fieldnames))
    /\ fieldnames' = <<>>
    /\ pc' = "finalize"
    /\ UNCHANGED <<convertUTF8, flagVars, g_dbs, connections, call, g_finalize_msg, command, pArgs, st,
                   allrows, rowcount, step_res, plhs, warnings, ret, otherVars>>

\* A statement without columns: one step, and the statement is finalized.
NoResult ==
    /\ pc = "noresult"
    /\ \E res \in StepResults \ {"SQLITE_ROW"} :
        /\ step_res' = res
        /\ g_finalize_msg' = IF res # "SQLITE_DONE" THEN "SQL_ERR" ELSE g_finalize_msg
    /\ st' = Finalized(st)
    /\ plhs' = EmptyMatrix
    /\ pc' = "finalize"
    /\ UNCHANGED <<convertUTF8, flagVars, g_dbs, connections, call, command, pArgs, fieldnames,
                   allrows, rowcount, heap, warnings, ret, otherVars>>

\* The finalize label: a statement still there is cleared and finalized,
\* the command string and the parameter collection are freed, and the call
\* returns, with an error when g_finalize_msg is set.
Finalize ==
    /\ pc = "finalize"
    /\ st' = IF st.prepared THEN Finalized([st EXCEPT !.cleared = @ + 1]) ELSE st
    /\ command' = FALSE
    /\ pArgs' = NoArgs
    /\ ret' = IF g_finalize_msg # "NULL"
              THEN [status |-> "error", msg |-> g_finalize_msg, plhs |-> NoPlhs,
                    warnings |-> warnings]
              ELSE [status |-> "ok", msg |-> "NULL", plhs |-> plhs, warnings |-> warnings]
    /\ pc' = "returned"
    /\ call' = NoCall
    /\ fieldnames' = <<>> /\ allrows' = <<>> /\ rowcount' = 0
    /\ plhs' = NoPlhs
    /\ UNCHANGED <<convertUTF8, flagVars, g_dbs, connections, g_finalize_msg, step_res, heap, warnings,
                   otherVars>>

Next ==
    \/ Enter
    \/ UsageCall
    \/ FlagCommand
    \/ QueryCall
    \/ BindParameters
    \/ Columns
    \/ StepRow
    \/ EndOfRows
    \/ TranscribeRow
    \/ FreeNames
    \/ NoResult
    \/ Finalize

Spec == Init /\ [][Next]_vars

(***************************************************************************)
(* The result path of one query on its own: the call stands behind the     *)
(* parameter binding of a statement without placeholders, and the columns  *)
(* of the statement bear sampled names, or "a", "a", "a_1" .. "a_99".      *)
(***************************************************************************)
MaxCols == 3       \* most columns of a statement with sampled names

\* Names that meet through a suffix, "a" and "a_1", and names that meet
\* once they are made valid, "a b" and "a_b".
SuffixNames == { <<97>>, <<97, 95, 49>> }
BlankNames == { <<97, 32, 98>>, <<97, 95, 98>> }

\* A statement whose columns leave no suffix free for the second "a".
ManyColumns == << <<97>>, <<97>> >> \o [k \in 1..99 |-> SuffixedName(<<97>>, k)]

NameVectors ==
    ((SeqsUpTo(SuffixNames, MaxCols) \cup SeqsUpTo(BlankNames, MaxCols)) \ {<<>>})
        \cup {ManyColumns}

NamesInit ==
    /\ convertUTF8 = TRUE
    /\ NULLasNaN = FALSE /\ use_typed_blobs = FALSE /\ check4uniquefields \in BOOLEAN
    /\ g_platform = ThisMachine.pf /\ g_endian = ThisMachine.e
    /\ g_dbs = [i \in 0..(MaxNumOfDbs - 1) |-> IF i = 0 THEN 1 ELSE 0]
    /\ connections = {1}
    /\ pc = "columns"
    /\ \E nv \in NameVectors :
          call = [command |-> "query", db_id |-> 0, NumArgs |-> 0, FirstIsCell |-> FALSE,
                  query |-> [complete |-> FALSE, prepares |-> TRUE, nparams |-> 0,
                             names |-> nv],
                  indexed |-> {0}]
    /\ g_finalize_msg = "NULL" /\ command = TRUE
    /\ pArgs = CollectArgs(<<>>, 0).pArgs
    /\ st = [NoStmt EXCEPT !.prepared = TRUE]
    /\ fieldnames = <<>> /\ allrows = <<>> /\ rowcount = 0 /\ step_res = "none"
    /\ plhs = NoPlhs /\ warnings = {}
    /\ heap = {} /\ ret = NoRet
    /\ CodecIdle /\ SizeIdle
    /\ item = NoItem /\ blob = <<>> /\ tamper = NoTamper /\ dec = NoDec /\ bpc = "idle"

NamesNext ==
    \/ Columns
    \/ StepRow
    \/ EndOfRows
    \/ TranscribeRow
    \/ FreeNames
    \/ Finalize

SpecNames == NamesInit /\ [][NamesNext]_vars

(***************************************************************************)
(* A value of several elements written and read back with typed BLOBs     *)
(* off: the binding loop binds it, the engine stores what it was handed,   *)
(* and a later query reads the column.  The value is a small array with    *)
(* its bytes, or an array of a sampled size, of which only the sizes are   *)
(* followed.                                                               *)
(***************************************************************************)
\* cntElements, szElement and the dimensions of an array.
ArrOf(it) ==
    [nDims |-> Len(it.dims), cntElements |-> L64(mxGetNumberOfElements(it)),
     szElement |-> mxGetElementSize(it.clsid)]

\* Vectors and a matrix of several elements, one with a 0 byte, and a
\* text of two characters.
RawItems ==
    { mxArr(mxClassID.mxUINT8_CLASS, <<1, 3>>, <<1, 0, 3>>),
      mxArr(mxClassID.mxINT16_CLASS, <<2, 2>>, DataPattern(11, 8)),
      mxArr(mxClassID.mxDOUBLE_CLASS, <<1, 2>>, DataPattern(200, 16)),
      mxArr(mxClassID.mxINT64_CLASS, <<2, 1>>, DataPattern(11, 16)),
      mxArr(mxClassID.mxCHAR_CLASS, <<1, 2>>, <<97, 228>>) }

\* (mwSize) (cntElements * szElement), as sqlite3_bind_blob takes it: an
\* int.
BindBlobBytes(b, a) == LTrunc(PayloadSizeT(b, a), 32)

\* What the engine may have stored when it was handed a negative number
\* of bytes, which sqlite3_bind_blob leaves undefined.
UndefinedLens == {LZero, L64(2)}

RawInit ==
    /\ build \in Builds
    /\ \/ item \in RawItems /\ arr = ArrOf(item)
       \/ /\ item = NoItem
          /\ arr \in {a \in [nDims : {2}, cntElements : CntSample, szElement : {1, 2, 4, 8}] :
                         Holds(build, a)}
    /\ sized = NoSized
    /\ g_platform = ThisMachine.pf /\ g_endian = ThisMachine.e
    /\ blob = <<>> /\ tamper = NoTamper /\ dec = NoDec /\ bpc = "item"
    /\ convertUTF8 = TRUE
    /\ CodecIdle
    /\ MexIdle

\* One pass of the binding loop with typed BLOBs off.  The engine takes
\* the bytes it was handed, or refuses.
RawBind ==
    /\ bpc = "item"
    /\ \E bindRes \in {"SQLITE_OK", "SQLITE_TOOBIG"}, undefined \in UndefinedLens :
        LET n == BindBlobBytes(build, arr)
            r == BindItem(item, bindRes, TRUE, 0)
        IN  IF item # NoItem
            THEN /\ st' = [NoStmt EXCEPT !.prepared = TRUE, !.bound = <<r.slot>>]
                 /\ sized' = [err |-> r.err, sizeBlob |-> L64(Len(r.slot.bytes)),
                              overrun |-> FALSE]
            ELSE /\ st' = [NoStmt EXCEPT !.prepared = TRUE, !.bound = <<NoSlot>>]
                 /\ sized' = IF bindRes # "SQLITE_OK"
                             THEN [err |-> "SQL_ERR", sizeBlob |-> LZero, overrun |-> FALSE]
                             ELSE [err |-> "none",
                                   sizeBlob |-> IF LNeg32(n) THEN undefined ELSE n,
                                   overrun |-> FALSE]
    /\ bpc' = "stored"
    /\ UNCHANGED <<codecVars, build, arr, machineVars, item, blob, tamper, dec, flagVars,
                   g_dbs, connections, pc, call, g_finalize_msg, command, pArgs, fieldnames, allrows,
                   rowcount, step_res, heap, plhs, warnings, ret>>

\* A later query reads the column the value was stored in: the row is
\* decoded and transcribed.
RawRead ==
    /\ bpc = "stored"
    /\ sized.err = "none" /\ item # NoItem
    /\ LET slot == st.bound[1]
           col == Column(IF slot.type = "text" THEN "SQLITE_TEXT" ELSE "SQLITE_BLOB",
                         slot.bytes, "")
           r == RenderRecord(<<DecodeColumn(col)>>, 1,
                             [err |-> "none", warn |-> FALSE, out |-> <<>>], 0)
       IN  plhs' = [NoPlhs EXCEPT !.kind = "struct", !.records = <<r.out>>]
    /\ bpc' = "read"
    /\ UNCHANGED <<codecVars, sizeVars, machineVars, item, blob, tamper, dec, flagVars,
                   g_dbs, connections, pc, call, g_finalize_msg, command, pArgs, st, fieldnames,
                   allrows, rowcount, step_res, heap, warnings, ret>>

RawNext ==
    \/ RawBind
    \/ RawRead

SpecRaw == RawInit /\ [][RawNext]_vars

(***************************************************************************)
(* The table of connections: the commands open, close, status and          *)
(* setbusytimeout, and a query up to its prepare, from a process with no   *)
(* database open.  A connection is named by a number from 1 on.            *)
(***************************************************************************)
MaxConns == 5      \* most connections the engine holds open at a time

\* db_id behind the check of the first argument, and the check.
DbId(db) == IF db.numeric THEN db.id - 1 ELSE 0
BadDbId(db) == db.numeric /\ (db.id < 0 \/ db.id > MaxNumOfDbs)

Slots == 0..(MaxNumOfDbs - 1)

\* The search for a free slot: the slot found, -1 when there is none, and
\* the indices the loop has used.
FirstFree(dbs) ==
    LET free == {i \in Slots : dbs[i] = 0}
        found == IF free = {} THEN -1 ELSE CHOOSE i \in free : \A i2 \in free : i <= i2
    IN  [db_id |-> found, indexed |-> IF found < 0 THEN Slots ELSE 0..found]

\* The connection sqlite3_open gives: one the engine does not hold open.
NewConnection(conns) ==
    CHOOSE h \in 1..(MaxConns + 1) : h \notin conns /\ \A h2 \in 1..(h - 1) : h2 \in conns

\* plhs[0] = mxCreateDoubleScalar( n )
DoubleScalar(n) == [NoPlhs EXCEPT !.kind = "scalar", !.scalar = n]

\* What the read of g_dbs[-1] finds in front of the table.
BeforeTable == {"NULL", "garbage"}

EngineResults == {"SQLITE_OK", "SQLITE_ERROR"}

DbsInit ==
    /\ convertUTF8 = TRUE
    /\ g_platform = ThisMachine.pf /\ g_endian = ThisMachine.e
    /\ MexIdle
    /\ CodecIdle /\ SizeIdle
    /\ item = NoItem /\ blob = <<>> /\ tamper = NoTamper /\ dec = NoDec /\ bpc = "idle"

\* What a command that is no query leaves alone.
commandVars == <<convertUTF8, flagVars, pArgs, st, fieldnames, allrows, rowcount, step_res,
                 heap, warnings, ret, otherVars>>

\* The end of a command: the call record, the command string, the table,
\* the result and the message.
CommandEnds(name, db, cmd, indexed, dbs, conns, out, msg) ==
    /\ call' = [NoCall EXCEPT !.command = name, !.db_id = DbId(db), !.indexed = indexed]
    /\ command' = cmd
    /\ g_dbs' = dbs /\ connections' = conns
    /\ plhs' = out
    /\ Finalizing(msg)

\* open: the connection of a database id above 1 is closed, a free slot
\* is looked for when the id is 0, and sqlite3_open stores into the slot.
OpenCommand ==
    /\ pc = "entry"
    /\ \E db \in DbArgs, args \in FlagArgs, rc \in EngineResults, rcBusy \in EngineResults :
        LET NumArgs == Len(args)
            closes == DbId(db) > 0 /\ g_dbs[DbId(db)] # 0
            dbs == IF closes THEN [g_dbs EXCEPT ![DbId(db)] = 0] ELSE g_dbs
            conns == IF closes THEN connections \ {g_dbs[DbId(db)]} ELSE connections
            search == FirstFree(dbs)
            db_id == IF DbId(db) < 0 THEN search.db_id ELSE DbId(db)
            indexed == (IF DbId(db) > 0 THEN {DbId(db)} ELSE {})
                           \cup (IF DbId(db) < 0 THEN search.indexed ELSE {})
            ends(ix, d, c, out, msg) == CommandEnds("open", db, TRUE, ix, d, c, out, msg)
        IN  IF BadDbId(db)
            THEN CommandEnds("open", db, FALSE, {}, g_dbs, connections, NoPlhs,
                             "MSG_IMPOSSIBLE")
            ELSE IF NumArgs # 1 \/ ~mxIsChar(args[1])
            THEN ends({}, g_dbs, connections, NoPlhs, "MSG_INVALIDARG")
            ELSE IF db_id < 0
            THEN ends(indexed, dbs, conns, DoubleScalar(0), "MSG_IMPOSSIBLE")
            ELSE IF Cardinality(conns) >= MaxConns THEN FALSE
            ELSE IF rc # "SQLITE_OK"
            THEN ends(indexed \cup {db_id}, [dbs EXCEPT ![db_id] = 0], conns,
                      DoubleScalar(0), "MSG_IMPOSSIBLE")
            ELSE IF rcBusy # "SQLITE_OK"
            THEN ends(indexed \cup {db_id}, [dbs EXCEPT ![db_id] = 0], conns,
                      DoubleScalar(0), "MSG_BUSYTIMEOUTFAIL")
            ELSE ends(indexed \cup {db_id},
                      [dbs EXCEPT ![db_id] = NewConnection(conns)],
                      conns \cup {NewConnection(conns)},
                      DoubleScalar(db_id + 1), "NULL")
    /\ UNCHANGED commandVars

\* close: every open connection with the id 0, the one of the id
\* otherwise.
CloseCommand ==
    /\ pc = "entry"
    /\ \E db \in DbArgs, args \in FlagArgs :
        LET db_id == DbId(db)
            ends(ix, d, c, msg) == CommandEnds("close", db, TRUE, ix, d, c, NoPlhs, msg)
        IN  IF BadDbId(db)
            THEN CommandEnds("close", db, FALSE, {}, g_dbs, connections, NoPlhs,
                             "MSG_IMPOSSIBLE")
            ELSE IF Len(args) > 0
            THEN ends({}, g_dbs, connections, "MSG_INVALIDARG")
            ELSE IF db_id < 0
            THEN ends(Slots, [i \in Slots |-> 0],
                      connections \ {g_dbs[i] : i \in Slots}, "NULL")
            ELSE IF g_dbs[db_id] = 0
            THEN ends({db_id}, g_dbs, connections, "MSG_DBNOTOPEN")
            ELSE ends({db_id}, [g_dbs EXCEPT ![db_id] = 0],
                      connections \ {g_dbs[db_id]}, "NULL")
    /\ UNCHANGED commandVars

\* status: every slot is printed.
StatusCommand ==
    /\ pc = "entry"
    /\ \E db \in DbArgs, args \in FlagArgs :
        IF BadDbId(db)
        THEN CommandEnds("status", db, FALSE, {}, g_dbs, connections, NoPlhs,
                         "MSG_IMPOSSIBLE")
        ELSE IF Len(args) > 0
        THEN CommandEnds("status", db, TRUE, {}, g_dbs, connections, NoPlhs,
                         "MSG_INVALIDARG")
        ELSE CommandEnds("status", db, TRUE, Slots, g_dbs, connections, NoPlhs, "NULL")
    /\ UNCHANGED commandVars

\* setbusytimeout: g_dbs[db_id] is read without a look at db_id.  With
\* the id 0 the read is in front of the table: it finds NULL, or some
\* value that sqlite3_busy_timeout is then called with.
SetBusyTimeout ==
    /\ pc = "entry"
    /\ \E db \in DbArgs, args \in FlagArgs, rc \in EngineResults, found \in BeforeTable :
        LET db_id == DbId(db)
            ends(d, c, out, msg) ==
                CommandEnds("setbusytimeout", db, TRUE, {db_id}, d, c, out, msg)
        IN  /\ db_id >= 0 => found = "NULL"
            /\ IF BadDbId(db)
               THEN CommandEnds("setbusytimeout", db, FALSE, {}, g_dbs, connections,
                                NoPlhs, "MSG_IMPOSSIBLE")
               ELSE IF Len(args) # 1 \/ ~mxIsNumeric(args[1])
               THEN CommandEnds("setbusytimeout", db, TRUE, {}, g_dbs, connections,
                                NoPlhs, "MSG_INVALIDARG")
               ELSE IF db_id < 0
               THEN IF found = "NULL"
                    THEN ends(g_dbs, connections, NoPlhs, "MSG_DBNOTOPEN")
                    ELSE IF rc = "SQLITE_OK"
                    THEN ends(g_dbs, connections, NoPlhs, "NULL")
                    ELSE ends(g_dbs, connections, DoubleScalar(0), "MSG_BUSYTIMEOUTFAIL")
               ELSE IF g_dbs[db_id] = 0
               THEN ends(g_dbs, connections, NoPlhs, "MSG_DBNOTOPEN")
               ELSE IF rc = "SQLITE_OK"
               THEN ends(g_dbs, connections, NoPlhs, "NULL")
               ELSE ends([g_dbs EXCEPT ![db_id] = 0], connections \ {g_dbs[db_id]},
                         DoubleScalar(0), "MSG_BUSYTIMEOUTFAIL")
    /\ UNCHANGED commandVars

DbsNext ==
    \/ Enter
    \/ UsageCall
    \/ OpenCommand
    \/ CloseCommand
    \/ StatusCommand
    \/ SetBusyTimeout
    \/ QueryCall
    \/ Finalize

SpecDbs == DbsInit /\ [][DbsNext]_vars

(***************************************************************************)
(* C1: when a call returns, normally or with an error, every buffer the    *)
(* call has allocated is released: the field-name array, each field name,  *)
(* every row of the list, the command string and the parameter collection. *)
(***************************************************************************)
C1_BuffersReleasedOnReturn ==
    (pc = "returned" /\ ret.status # "none") =>
        heap = {} /\ ~command /\ ~pArgs.alloc

(***************************************************************************)
(* C2: when a step of the statement reported an engine error, a result     *)
(* that is neither a row nor the end, the call returns the engine's error  *)
(* and no result.                                                          *)
(***************************************************************************)
C2_StepErrorIsEngineError ==
    (pc = "returned" /\ step_res \notin {"none", "SQLITE_ROW", "SQLITE_DONE"}) =>
        ret.status = "error" /\ ret.msg = "SQL_ERR" /\ ret.plhs = NoPlhs

(***************************************************************************)
(* C3: typed BLOB round trip.  For every supported element type, every     *)
(* dimension vector and every matching payload, decoding the BLOB the      *)
(* encoder produced, in the same process, succeeds and yields the same     *)
(* class id, the same dimension sizes in the same order and the same       *)
(* payload bytes, with no warning.                                         *)
(***************************************************************************)
C3_TypedBlobRoundTrip ==
    (bpc = "decoded" /\ tamper.kind = "none") =>
        /\ dec.err = "none"
        /\ dec.clsid = item.clsid
        /\ dec.dims = item.dims
        /\ dec.data = item.data
        /\ dec.copied = Len(item.data)
        /\ ~dec.warn

\* A round trip of an array of three dimensions whose sizes differ.
C3_Witness ==
    /\ bpc = "decoded" /\ tamper.kind = "none"
    /\ Len(item.dims) = 3
    /\ item.dims[1] # item.dims[3]
    /\ mxGetElementSize(item.clsid) = 8
    /\ dec.data = item.data

(***************************************************************************)
(* C5 as claimed: a BLOB whose magic tag differs from the magic string in  *)
(* any single byte fails to decode with an error of its own, distinct      *)
(* from the one of a version mismatch and of a size mismatch, and no       *)
(* array is produced.                                                      *)
(***************************************************************************)
\* The stored BLOB with its magic tag as the encoder wrote it.
MagicRestored == Poke(blob, TBH_OFF_MAGIC, TBH_MAGIC)

\* The errors the decoder gives that BLOB with another version, and cut by
\* one byte.
VersionMismatchError ==
    DecodeTypedBlob(Poke(MagicRestored, TBH_OFF_VER, Store16(TBH_SIZEOF + 4, g_endian)),
                    g_platform, g_endian, 0).err

SizeMismatchError ==
    DecodeTypedBlob(SubSeq(MagicRestored, 1, Len(blob) - 1), g_platform, g_endian, 0).err

C5_BadMagicDistinctError ==
    (bpc = "decoded" /\ tamper.kind = "magic") =>
        /\ dec.err # "none"
        /\ ~dec.attached
        /\ dec.err # VersionMismatchError
        /\ dec.err # SizeMismatchError

(***************************************************************************)
(* C5 as amended: a BLOB one of whose 12 magic characters differs fails    *)
(* to decode with MSG_UNSUPPTBH, the error a version mismatch gives too    *)
(* and not the one of a size mismatch; no array is produced and no         *)
(* payload byte is copied.  The terminator of the tag is not compared.     *)
(***************************************************************************)
C5_BadMagicUnsupportedHeader ==
    (bpc = "decoded" /\ tamper.kind = "magic" /\ tamper.pos < TBH_MAGIC_STRLEN) =>
        /\ dec.err = "MSG_UNSUPPTBH"
        /\ dec.err = VersionMismatchError
        /\ dec.err # SizeMismatchError
        /\ ~dec.attached
        /\ dec.copied = 0

\* The last character of the magic string changed, and the BLOB read.
C5_Witness ==
    /\ bpc = "decoded" /\ tamper.kind = "magic" /\ tamper.pos = TBH_MAGIC_STRLEN - 1
    /\ dec.err = "MSG_UNSUPPTBH"

(***************************************************************************)
(* C6: a BLOB with a valid header whose payload bytes present, its length  *)
(* minus the header offset for the declared dimension count, differ in     *)
(* number from declared element count times element size, as a valid BLOB  *)
(* cut by one byte does, fails to decode with MSG_INVALIDARG and no        *)
(* payload byte is copied into an array.                                   *)
(***************************************************************************)
HeaderDims(mem, e) ==
    [j \in 1..Load32(Peek(mem, TBH_OFF_SIZEDIMS, 4, 0), e) |->
        Load32(Peek(mem, TBH_OFF_SIZEDIMS + 4 * j, 4, 0), e)]

PayloadPresent(mem, e) == Len(mem) - (TBH_SIZEOF + 4 * Len(HeaderDims(mem, e)))

PayloadDeclared(mem, e) ==
    Product(HeaderDims(mem, e)) * mxGetElementSize(Load32(Peek(mem, TBH_OFF_CLSID, 4, 0), e))

C6_SizeMismatchRejected ==
    (bpc = "decoded" /\ tamper.kind \in {"none", "truncate", "extend", "dims", "platform", "endian"}
        /\ PayloadPresent(blob, g_endian) # PayloadDeclared(blob, g_endian)) =>
        /\ dec.err = "MSG_INVALIDARG"
        /\ dec.copied = 0
        /\ ~dec.attached

\* A valid BLOB cut by one byte, and read.
C6_Witness ==
    /\ bpc = "decoded" /\ tamper.kind = "truncate"
    /\ PayloadPresent(blob, g_endian) = PayloadDeclared(blob, g_endian) - 1
    /\ dec.err = "MSG_INVALIDARG"

C7_WitnessPlatform ==
    /\ bpc = "decoded" /\ tamper.kind = "platform"
    /\ dec.warn /\ dec.err = "none"

(***************************************************************************)
(* C8: charset round trip.  For every string x of bytes 1..255,            *)
(* utf2latin(latin2utf(x)) is x followed by its terminator, byte for byte, *)
(* and the returned length is that of x plus the terminator.               *)
(***************************************************************************)
C8_CharsetRoundTrip ==
    conv.op = "roundtrip" =>
        /\ ~conv.fault
        /\ conv.out = Append(cx, 0)
        /\ conv.n2 = Len(cx) + 1

\* A round trip of a string that has both kinds of byte.
C8_Witness ==
    /\ conv.op = "roundtrip"
    /\ Len(cx) >= 2
    /\ \E i \in 1..Len(cx) : cx[i] >= 128
    /\ \E i \in 1..Len(cx) : cx[i] < 128

(***************************************************************************)
(* C9: utf2latin is total: on every null-terminated input it ends without  *)
(* reading a byte behind the input's terminator.                           *)
(***************************************************************************)
C9_Utf2LatinStaysInInput ==
    conv.op \in {"utf2latin", "strnewdup"} =>
        /\ ~conv.fault
        /\ conv.rd <= conv.term

(***************************************************************************)
(* C10: two-pass protocol.  The sizing call and the filling call return    *)
(* the same value and the filling call stores no more bytes than that      *)
(* value, for both directions and for strnewdup, getstring and the text    *)
(* binding.                                                                *)
(***************************************************************************)
C10_TwoPassAgree ==
    (conv.op # "none" /\ ~conv.fault) =>
        /\ conv.n1 = conv.n2
        /\ conv.extent <= conv.cap

(***************************************************************************)
(* C11: with check4uniquefields on and no warning raised, the first column *)
(* of each valid name keeps it, and each later column of that name bears   *)
(* name_k, k in 1..99, a name no other column bears, with every name_k2    *)
(* of a smaller k2 borne by some column; the columns "a", "a", "a" become  *)
(* "a", "a_1", "a_2".                                                      *)
(***************************************************************************)
Sanitized == [j \in 1..Len(call.query.names) |-> SanitizeName(call.query.names[j])]

FirstOfItsName(s, j) == \A i \in 1..(j - 1) : s[i] # s[j]

NamesResolved == pc \in {"step", "collected", "transcribe", "names"}

C11_DuplicatesRenamed ==
    (NamesResolved /\ check4uniquefields /\ "MSG_MSGUNIQUEWARN" \notin warnings) =>
        \A s \in {Sanitized} :
            /\ Len(fieldnames) = Len(s)
            /\ \A j \in 1..Len(fieldnames) :
                  IF FirstOfItsName(s, j) THEN fieldnames[j] = s[j]
                  ELSE \E k \in 1..99 :
                          /\ fieldnames[j] = SuffixedName(s[j], k)
                          /\ \A l \in 1..Len(fieldnames) :
                                l # j => fieldnames[l] # fieldnames[j]
                          /\ \A k2 \in 1..(k - 1) :
                                \E l \in 1..Len(fieldnames) :
                                    fieldnames[l] = SuffixedName(s[j], k2)
            /\ call.query.names = << <<97>>, <<97>>, <<97>> >> =>
                  fieldnames = << <<97>>, <<97, 95, 49>>, <<97, 95, 50>> >>

C11_Witness ==
    /\ pc = "step" /\ check4uniquefields
    /\ call.query.names = << <<97>>, <<97>>, <<97>> >>
    /\ fieldnames = << <<97>>, <<97, 95, 49>>, <<97, 95, 50>> >>

(***************************************************************************)
(* C12: a later column of a name whose name_1 .. name_99 are all borne by  *)
(* other columns keeps its name, MSG_MSGUNIQUEWARN is raised and no error  *)
(* is set: the columns behind it are resolved as ever, and a call that     *)
(* raised the warning returns its result, the empty matrix or the array of *)
(* structs with the name borne twice, together with the warning.           *)
(***************************************************************************)
NoSuffixFree(s, j) ==
    \A k \in 1..99 :
        \E l \in 1..Len(fieldnames) : l # j /\ fieldnames[l] = SuffixedName(s[j], k)

NaNScalar == mxOut("double", mxClassID.mxDOUBLE_CLASS, <<1, 1>>, <<>>, "NaN")

NullFieldsRendered ==
    (pc = "transcribe" /\ Len(plhs'.records) = Len(plhs.records) + 1) =>
        LET vs == Head(allrows).m_Values
            rec == plhs'.records[Len(plhs'.records)]
        IN  \A fieldnr \in 1..Len(rec) :
                vs[fieldnr].m_Type = "SQLITE_NULL" =>
                    rec[fieldnr] = IF NULLasNaN THEN NaNScalar ELSE EmptyDouble

C13_NullRendering ==
    [][/\ NullFieldsRendered
       /\ NULLasNaN' # NULLasNaN => (pc = "entry" /\ call'.command = "NULLasNaN")]_vars

C13_Witness ==
    /\ pc = "returned" /\ ret.status = "ok" /\ NULLasNaN
    /\ ret.plhs.kind = "struct"
    /\ \E i \in 1..Len(ret.plhs.records) :
          \E fieldnr \in 1..Len(ret.plhs.records[i]) :
              ret.plhs.records[i][fieldnr] = NaNScalar

(***************************************************************************)
(* C14: a query that is given more arguments than its statement has        *)
(* placeholders, none included, ends with MSG_UNEXPECTEDARG: no slot is    *)
(* bound, the statement is not stepped, and the call returns the error.    *)
(***************************************************************************)
ExcessArguments(c) == c.command = "query" /\ c.NumArgs > c.query.nparams

C14_ExcessArgumentsRefused ==
    [][/\ ExcessArguments(call') =>
            /\ pc' = "finalize" /\ g_finalize_msg' = "MSG_UNEXPECTEDARG"
            /\ step_res' = "none"
            /\ \A i \in 1..Len(st'.bound) : st'.bound[i] = NoSlot
       /\ (pc = "finalize" /\ ExcessArguments(call)) =>
            /\ ret'.status = "error" /\ ret'.msg = "MSG_UNEXPECTEDARG"
            /\ ret'.plhs = NoPlhs /\ step_res' = "none"]_vars

C14_Witness ==
    /\ pc = "finalize" /\ g_finalize_msg = "MSG_UNEXPECTEDARG"
    /\ call.query.nparams = 2 /\ call.NumArgs = 3
    /\ st.bound = <<NoSlot, NoSlot>>

C14_WitnessNoPlaceholder ==
    /\ pc = "finalize" /\ g_finalize_msg = "MSG_UNEXPECTEDARG"
    /\ call.query.nparams = 0 /\ call.NumArgs = 1

(***************************************************************************)
(* C15: behind a binding that went through, every placeholder behind the   *)
(* last argument of a list is unbound, SQL NULL, every placeholder whose   *)
(* value is empty is unbound, and every other placeholder holds what its   *)
(* own value binds to, whatever the values beside it are.                  *)
(***************************************************************************)
BindingDone ==
    /\ call.command = "query"
    /\ pc \in {"columns", "step", "collected", "transcribe", "names", "noresult"}

SlotsOf(it) == {BindItem(it, "SQLITE_OK", TRUE, junk).slot : junk \in JunkBytes}

C15_WitnessEmptyValue ==
    /\ BindingDone /\ ~call.FirstIsCell
    /\ call.query.nparams = 2 /\ call.NumArgs = 2
    /\ mxIsEmpty(pArgs.cells[1])
    /\ st.bound[1] = NoSlot /\ st.bound[2].type = "text"

(***************************************************************************)
(* C16: a query whose statement has columns and gave no row returns the    *)
(* empty matrix, as a query whose statement has no columns does; an array  *)
(* of structs that is returned has a record and a field at least.          *)
(***************************************************************************)
QueryEnds == pc = "finalize" /\ call.command = "query" /\ g_finalize_msg = "NULL"

C16_EmptyResultIsEmptyMatrix ==
    [][/\ (QueryEnds /\ Len(call.query.names) > 0 /\ rowcount = 0) =>
            /\ ret'.status = "ok"
            /\ ret'.plhs.kind = "empty" /\ ret'.plhs.names = <<>> /\ ret'.plhs.records = <<>>
       /\ (QueryEnds /\ Len(call.query.names) = 0) =>
            /\ ret'.status = "ok"
            /\ ret'.plhs.kind = "empty" /\ ret'.plhs.names = <<>> /\ ret'.plhs.records = <<>>
       /\ ret'.plhs.kind = "struct" =>
            Len(ret'.plhs.records) > 0 /\ Len(ret'.plhs.names) > 0]_vars

C16_Witness ==
    /\ pc = "finalize" /\ g_finalize_msg = "NULL"
    /\ Len(call.query.names) > 0 /\ rowcount = 0 /\ step_res = "SQLITE_DONE"
    /\ fieldnames = <<>>
    /\ plhs.kind = "empty"

(***************************************************************************)
(* C17: a scalar of class logical or of an integer class of 8, 16, 32 or   *)
(* 64 bits binds as an integer and a scalar of class single or double as a *)
(* float; a binding ends with MSG_INVALIDARG only for an item of a class   *)
(* that is none of these nor char.                                         *)
(***************************************************************************)
IntegerClasses ==
    BindIntClasses \cup {mxClassID.mxINT64_CLASS, mxClassID.mxUINT64_CLASS}

\* The item the binding loop ended at: the first one that is there, not
\* empty, and whose placeholder nothing is bound to.
FailedItem ==
    LET open == {i \in 1..Len(pArgs.cells) :
                    /\ i <= Len(st.bound)
                    /\ ~mxIsEmpty(pArgs.cells[i])
                    /\ st.bound[i] = NoSlot}
    IN  pArgs.cells[CHOOSE i \in open : \A i2 \in open : i <= i2]

BindingFailed(msg) ==
    /\ pc = "finalize" /\ call.command = "query" /\ step_res = "none"
    /\ pArgs.alloc /\ g_finalize_msg = msg

C17_ScalarClassesBind ==
    /\ BindingDone =>
          \A i \in 1..Len(pArgs.cells) :
              (i <= call.query.nparams /\ mxGetNumberOfElements(pArgs.cells[i]) = 1
                   /\ ~pArgs.cells[i].complex) =>
                  /\ pArgs.cells[i].clsid \in IntegerClasses => st.bound[i].type = "int"
                  /\ pArgs.cells[i].clsid \in BindDoubleClasses =>
                        st.bound[i].type = "double"
    /\ BindingFailed("MSG_INVALIDARG") =>
          FailedItem.clsid \notin
              IntegerClasses \cup BindDoubleClasses \cup {mxClassID.mxCHAR_CLASS}

(***************************************************************************)
(* C18: when the binding loop comes to a value that is not empty and is    *)
(* complex, a cell or a struct, at whichever placeholder and whether       *)
(* typed BLOBs are on or off, the call ends with MSG_UNSUPPVARTYPE: the    *)
(* placeholder and those behind it stay unbound, the statement is not      *)
(* stepped, and the call returns the error.                                *)
(***************************************************************************)
Unsupported(it) ==
    /\ mxGetNumberOfElements(it) > 0
    /\ \/ it.complex
       \/ it.clsid = mxClassID.mxCELL_CLASS
       \/ it.clsid = mxClassID.mxSTRUCT_CLASS

\* The placeholders whose value is unsupported and which the loop came to:
\* every value before is empty or bound.
UnsupportedReached ==
    IF call.command = "query" /\ pArgs.alloc
    THEN {i \in 1..Len(pArgs.cells) :
             /\ i <= call.query.nparams
             /\ Unsupported(pArgs.cells[i])
             /\ \A h \in 1..(i - 1) :
                   mxIsEmpty(pArgs.cells[h]) \/ st.bound[h] # NoSlot}
    ELSE {}

C18_WitnessNestedCell ==
    /\ pc = "finalize" /\ g_finalize_msg = "MSG_UNSUPPVARTYPE"
    /\ ~use_typed_blobs /\ call.FirstIsCell
    /\ 1 \in UnsupportedReached
    /\ mxIsCell(pArgs.cells[1])

C18_WitnessComplex ==
    /\ pc = "finalize" /\ g_finalize_msg = "MSG_UNSUPPVARTYPE"
    /\ \E i \in UnsupportedReached : pArgs.cells[i].complex

(***************************************************************************)
(* C19: a BLOB of size 0 has no buffer of its own in the list of rows, and *)
(* its field is the empty matrix whether typed BLOBs are on or off; no     *)
(* record ends at such a field with an error, as no header is read.        *)
(***************************************************************************)
EmptyBlob(v) == v.m_Type = "SQLITE_BLOB" /\ v.m_Size = 0

EmptyBlobsOwnNothing ==
    \A r \in 1..Len(allrows) :
        \A j \in 1..Len(allrows[r].m_Values) :
            EmptyBlob(allrows[r].m_Values[j]) =>
                /\ ~allrows[r].m_Values[j].hasString
                /\ <<"m_StringValue", allrows[r].k, j>> \notin heap

C19_EmptyBlobIsEmptyMatrix ==
    [][/\ EmptyBlobsOwnNothing'
       /\ (pc = "transcribe" /\ Len(plhs'.records) = Len(plhs.records) + 1) =>
            LET vs == Head(allrows).m_Values
                rec == plhs'.records[Len(plhs'.records)]
            IN  /\ \A fieldnr \in 1..Len(rec) :
                      EmptyBlob(vs[fieldnr]) => rec[fieldnr] = EmptyDouble
                /\ Len(rec) < Len(vs) => ~EmptyBlob(vs[Len(rec) + 1])]_vars

C19_Witness ==
    /\ pc = "returned" /\ ret.status = "ok"
    /\ use_typed_blobs /\ NULLasNaN
    /\ ret.plhs.kind = "struct"
    /\ ret.plhs.records[1][1] = EmptyDouble

C19_WitnessUntyped ==
    /\ pc = "returned" /\ ret.status = "ok"
    /\ ~use_typed_blobs /\ NULLasNaN
    /\ ret.plhs.kind = "struct"
    /\ ret.plhs.records[1][1] = EmptyDouble

(***************************************************************************)
(* C20: with check4uniquefields on, field names that were resolved without *)
(* MSG_MSGUNIQUEWARN are pairwise distinct, whatever the column names are. *)
(***************************************************************************)
C20_FieldNamesDistinct ==
    (NamesResolved /\ check4uniquefields /\ "MSG_MSGUNIQUEWARN" \notin warnings) =>
        \A i, j \in 1..Len(fieldnames) : i # j => fieldnames[i] # fieldnames[j]

C20_Witness ==
    /\ pc = "step" /\ check4uniquefields /\ warnings = {}
    /\ call.query.names = << <<97, 32, 98>>, <<97, 95, 98>> >>
    /\ fieldnames = << <<97, 95, 98>>, <<97, 95, 98, 95, 49>> >>

C20_WitnessSuffixTaken ==
    /\ pc = "step" /\ check4uniquefields /\ warnings = {}
    /\ call.query.names = << <<97, 95, 49>>, <<97>>, <<97>> >>
    /\ fieldnames = << <<97, 95, 49>>, <<97>>, <<97, 95, 50>> >>

(***************************************************************************)
(* C21: when the rows are transcribed without an error, the array of       *)
(* structs has as many records as the engine has given rows, record i      *)
(* holds the fields of the i-th row the engine has given, and every node   *)
(* of the list is deleted once, right behind its transcription: the node   *)
(* and its buffers are allocated when the loop visits it, they are         *)
(* released by the same pass, and the list goes on behind the node.        *)
(***************************************************************************)
RowTranscribed == pc = "transcribe" /\ pc' \in {"transcribe", "names"}

RecordOf(vs, junk) ==
    [fieldnr \in 1..Len(vs) |-> RenderValue(vs[fieldnr], junk).out]

C21_RowsTransferredInOrder ==
    [][RowTranscribed =>
          LET lastrow == Head(allrows)
              index == Len(plhs.records) + 1
          IN  /\ lastrow.k = index
              /\ Len(plhs'.records) = index
              /\ SubSeq(plhs'.records, 1, index - 1) = plhs.records
              /\ \E junk \in JunkBytes :
                     plhs'.records[index] = RecordOf(lastrow.m_Values, junk)
              /\ RowObjects(lastrow.k, lastrow.m_Values) \subseteq heap
              /\ RowObjects(lastrow.k, lastrow.m_Values) \cap heap' = {}
              /\ \A j \in 2..Len(allrows) :
                     RowObjects(allrows[j].k, allrows[j].m_Values) \subseteq heap'
              /\ allrows' = Tail(allrows)
              /\ pc' = "names" => allrows' = <<>> /\ Len(plhs'.records) = rowcount']_vars

\* Two rows that differ have been transcribed, and no row is left.
C21_Witness ==
    /\ pc = "names" /\ plhs.kind = "struct"
    /\ rowcount = 2 /\ Len(plhs.records) = 2
    /\ plhs.records[1] # plhs.records[2]
    /\ \A k \in 1..2 : <<"Values", k, 0>> \notin heap

(***************************************************************************)
(* C22: a statement that sqlite3_prepare_v2 has given is finalized once    *)
(* before the call returns, on every path.  From the prepare to the end of *)
(* the stepping the statement is there and not finalized; behind the       *)
(* stepping it is finalized once and st is NULL, so that the finalize      *)
(* label leaves it alone; a call that is ended by an error before that     *)
(* finalizes it at the finalize label.                                     *)
(***************************************************************************)
StatementLive == pc \in {"bind", "columns", "step", "collected", "noresult"}
StatementDone == pc \in {"transcribe", "names"}

C22_FinalizedOnce ==
    /\ st.finalized <= 1
    /\ st.prepared => st.finalized = 0
    /\ StatementLive => st.prepared
    /\ StatementDone => ~st.prepared /\ st.finalized = 1
    /\ pc = "returned" => ~st.prepared
    /\ (pc = "returned" /\ ret.status # "none" /\ step_res # "none") => st.finalized = 1

\* A query has run to its end and returns its result: the statement was
\* finalized behind the stepping and not at the finalize label.
C22_Witness ==
    /\ pc = "returned" /\ ret.status = "ok" /\ ret.plhs.kind = "struct"
    /\ st.finalized = 1 /\ st.cleared = 0

\* An error of the binding has ended the call: the statement was
\* finalized at the finalize label.
C22_WitnessError ==
    /\ pc = "returned" /\ ret.status = "error" /\ ret.msg = "MSG_UNSUPPVARTYPE"
    /\ st.finalized = 1 /\ st.cleared = 1

\* An error behind the stepping has ended the call: the statement was
\* finalized before, and the finalize label has not touched it.
C22_WitnessLateError ==
    /\ pc = "returned" /\ ret.status = "error" /\ ret.msg = "MSG_UNSUPPTBH"
    /\ st.finalized = 1 /\ st.cleared = 0

(***************************************************************************)
(* C23: the order within one query.  sqlite3_step is called only when the  *)
(* binding loop has passed every placeholder without an error: the         *)
(* statement is there, no error is set, and every placeholder whose item   *)
(* is there and not empty holds what was bound.  A call that the binding   *)
(* ends has not stepped the statement, and the finalize label does not     *)
(* step it.  The result of the last step changes only by a step, and once  *)
(* it is another than SQLITE_ROW the call does not come to a step again.   *)
(***************************************************************************)
Stepping == pc \in {"step", "noresult"}

SlotProcessed(i) ==
    i > Len(pArgs.cells) \/ mxIsEmpty(pArgs.cells[i]) \/ st.bound[i] # NoSlot

C23_StepsOrdered ==
    [][/\ Stepping =>
             /\ st.prepared /\ g_finalize_msg = "NULL"
             /\ \A i \in 1..call.query.nparams : SlotProcessed(i)
       /\ (pc = "bind" /\ pc' = "finalize") => step_res' = "none" /\ ~Stepping'
       /\ pc = "finalize" => step_res' = step_res /\ ~Stepping'
       /\ step_res' # step_res => Stepping \/ (pc = "returned" /\ step_res' = "none")
       /\ step_res' \notin {"none", "SQLITE_ROW"} => ~Stepping'
       /\ (step_res \notin {"none", "SQLITE_ROW"} /\ pc # "returned") =>
             step_res' = step_res]_vars

\* The statement is about to be stepped with both placeholders bound.
C23_Witness ==
    /\ Stepping /\ call.query.nparams = 2 /\ step_res = "none"
    /\ st.bound[1] # NoSlot /\ st.bound[2] # NoSlot

\* The binding has ended the call at the second placeholder: the first is
\* bound and the statement was not stepped.
C23_WitnessBindFailure ==
    /\ pc = "returned" /\ ret.status = "error" /\ ret.msg = "MSG_UNSUPPVARTYPE"
    /\ Len(st.bound) = 2 /\ st.bound[1] # NoSlot /\ st.bound[2] = NoSlot
    /\ step_res = "none"

\* The stepping has ended behind one row.
C23_WitnessEnd ==
    /\ pc = "collected" /\ rowcount = 1 /\ step_res = "SQLITE_DONE"

(***************************************************************************)
(* C24: with typed BLOBs off at the write and at the read, a value of      *)
(* several elements that is no text is stored as element count times       *)
(* element size bytes, the bytes of its elements, and the column read      *)
(* back is a 1-by-N vector of uint8 with these bytes in their order; a     *)
(* text of several characters is bound as text.                            *)
(***************************************************************************)
RawStored == bpc \in {"stored", "read"} /\ sized.err = "none"

C24_OpaqueBlobRoundTrip ==
    /\ (RawStored /\ (item = NoItem \/ ~mxIsChar(item))) =>
          sized.sizeBlob = LMul(arr.cntElements, arr.szElement)
    /\ (RawStored /\ item # NoItem) =>
          IF mxIsChar(item) THEN st.bound[1].type = "text"
          ELSE st.bound[1] = [type |-> "blob", bytes |-> item.data]
    /\ (bpc = "read" /\ ~mxIsChar(item)) =>
          plhs.records = << <<mxOut("uint8", mxClassID.mxUINT8_CLASS,
                                    <<1, Len(item.data)>>, item.data, "")>> >>

(***************************************************************************)
(* C25: no connection is lost.  Over any sequence of open and close, with  *)
(* a database id of 1 to MaxNumOfDbs, with the id 0 or with none, every    *)
(* connection that was opened and is not closed is held by one slot of the *)
(* table, and no two slots hold the same connection: an open into a slot   *)
(* that holds a connection closes it first.                                *)
(***************************************************************************)
C25_NoLostConnection ==
    /\ connections = {g_dbs[i] : i \in Slots} \ {0}
    /\ \A i, j \in Slots : (g_dbs[i] # 0 /\ g_dbs[i] = g_dbs[j]) => i = j

(***************************************************************************)
(* C26: every read and every write of the table uses an index of 0 to      *)
(* MaxNumOfDbs - 1, for every command and every database id that passes    *)
(* the check of the first argument; the finalize label, which reads        *)
(* g_dbs[db_id] for the engine's message, does so too.                     *)
(***************************************************************************)
C26_TableIndexInRange ==
    /\ call.indexed \subseteq Slots
    /\ (pc = "finalize" /\ g_finalize_msg = "SQL_ERR") => call.db_id \in Slots

(***************************************************************************)
(* C27: the decoder of typed BLOBs reads nothing outside the BLOB.  For a  *)
(* BLOB of m > 0 bytes read in typed BLOB mode no byte at or behind        *)
(* offset m is read, neither of the header nor of the dimension sizes nor  *)
(* of the payload, and a BLOB shorter than the header, or shorter than     *)
(* the header with the dimensions it declares, is rejected with an error.  *)
(***************************************************************************)
C27_DecodeStaysInBlob ==
    (bpc = "decoded" /\ Len(blob) > 0) =>
        /\ dec.rdmax <= Len(blob)
        /\ Len(blob) < TBH_SIZEOF => dec.err # "none"
        /\ (Len(blob) >= TBH_SIZEOF
              /\ Len(blob) < TBH_DATA_OFFSET(Load32(SubSeq(blob, TBH_OFF_SIZEDIMS + 1,
                                                           TBH_OFF_SIZEDIMS + 4), g_endian)))
              => dec.err # "none"

(***************************************************************************)
(* C28: the values packed in one cell.  A cell with more elements than     *)
(* the statement has placeholders is refused with MSG_UNEXPECTEDARG, so    *)
(* that no collection with more elements than placeholders is ever bound;  *)
(* a cell followed by another argument is refused with                     *)
(* MSG_UNEXPECTEDARG; and behind the binding of a cell with fewer elements *)
(* than placeholders the placeholders behind its last element are NULL.    *)
(***************************************************************************)
PackedCall == call.command = "query" /\ call.FirstIsCell

C28_PackedCollectionCounted ==
    /\ (PackedCall /\ pArgs.alloc) => Len(pArgs.cells) <= call.query.nparams
    /\ (PackedCall /\ call.NumArgs > 1) =>
          pc = "finalize" /\ g_finalize_msg = "MSG_UNEXPECTEDARG" /\ ~pArgs.alloc
    /\ (PackedCall /\ BindingDone) =>
          \A i \in 1..call.query.nparams : i > Len(pArgs.cells) => st.bound[i] = NoSlot

=============================================================================
